---- MODULE Spec2Model ----
(***************************************************************************)
(* LIC policy recommender: ingestion of scraped policy rows into the       *)
(* vector collection, semantic search, rule-based scoring and the          *)
(* dashboard recommendation call.                                          *)
(*                                                                         *)
(* Strings are TLA+ strings; where the code looks inside a string          *)
(* (split, strip, lower, substring), the string is looked up in Spell,     *)
(* which gives its characters.  Floating-point scores are exact rationals  *)
(* scaled by ScoreScale; completeness is scaled by CompletenessDen.        *)
(***************************************************************************)
EXTENDS Integers, Sequences, FiniteSets, TLC

VARIABLES collection, metadata_collection, unique_index, clock, lastRun, rag_engine, ret,
          job, session, chat_collection

vars == <<collection, metadata_collection, unique_index, clock, lastRun, rag_engine, ret,
          job, session, chat_collection>>

(***************************************************************************)
(* Bounds of the model.                                                    *)
(***************************************************************************)
MaxBatch == 2
MaxDocs == 4
SimLevels == 2
MaxLimit == 2
MaxClock == 2
MaxDeps == 3
MaxEmptyFields == 2
MaxPremium == 25
MaxExchanges == 2
\* largest value of the retries argument of safe_request
MaxRetries == 3

(***************************************************************************)
(* Program constants.                                                      *)
(***************************************************************************)
AgeWeight == 40
GoalWeight == 30
RiskWeight == 20
CompletenessWeight == 10
NumCandidates == 100
RecommendationSearchLimit == 5
TopN == 3
DefaultAgeMin == 0
DefaultAgeMax == 100
TotalCompletenessFields == 13
SuccessThresholdPct == 70
DefaultMonthlyIncome == 50000
DefaultAge == 35
BasePremiumPct == 15
AgeFactorPivot == 30
TermFactorTenths == 3
InvestmentFactorTenths == 12
StandardFactorTenths == 10
ExcellentRatioPct == 10
GoodRatioPct == 15
ModerateRatioPct == 20
RiskAlignment == 85
GoalAlignment == 90
TotalPoliciesAnalyzed == 37
BasePremiumPerMille == 100
DependentPerMille == 20
SalesAgePivot == 30
CapPerMille == 150
MonthsPerYear == 12
DaysPerYear == 365
CoverBaseMultiple == 8
CoverPerDependent == 2
DefaultDependents == 0
ChatPremiumPerMille == 150
ChatDaysPerMonth == 30
ChatDefaultShownIncome == 0
TaxSavingCap == 150000

(***************************************************************************)
(* Characters of the strings the code inspects.                            *)
(***************************************************************************)
NaN == "<NaN>"

Spell ==
       "18-50 years" :> <<"1", "8", "-", "5", "0", " ", "y", "e", "a", "r", "s">> @@
       "N/A" :> <<"N", "/", "A">> @@
       "Insurance_Plans" :> <<"I", "n", "s", "u", "r", "a", "n", "c", "e", "_", "P", "l", "a", "n", "s">> @@
       "Pension_Plans" :> <<"P", "e", "n", "s", "i", "o", "n", "_", "P", "l", "a", "n", "s">> @@
       "Unit_Linked_Plans" :> <<"U", "n", "i", "t", "_", "L", "i", "n", "k", "e", "d", "_", "P", "l", "a", "n", "s">> @@
       "Micro_Insurance_Plans" :> <<"M", "i", "c", "r", "o", "_", "I", "n", "s", "u", "r", "a", "n", "c", "e", "_", "P", "l", "a", "n", "s">> @@
       "ULIP" :> <<"U", "L", "I", "P">> @@
       "Investment Plan" :> <<"I", "n", "v", "e", "s", "t", "m", "e", "n", "t", " ", "P", "l", "a", "n">> @@
       "unit" :> <<"u", "n", "i", "t">> @@
       "linked" :> <<"l", "i", "n", "k", "e", "d">> @@
       "18-50 yrs" :> <<"1", "8", "-", "5", "0", " ", "y", "r", "s">> @@
       "18-50years" :> <<"1", "8", "-", "5", "0", "y", "e", "a", "r", "s">> @@
       "18 to 50 years" :> <<"1", "8", " ", "t", "o", " ", "5", "0", " ", "y", "e", "a", "r", "s">> @@
       "a-b years" :> <<"a", "-", "b", " ", "y", "e", "a", "r", "s">> @@
       "65-18 years" :> <<"6", "5", "-", "1", "8", " ", "y", "e", "a", "r", "s">> @@
       "18-" :> <<"1", "8", "-">> @@
       "-50 years" :> <<"-", "5", "0", " ", "y", "e", "a", "r", "s">> @@
       "18-50" :> <<"1", "8", "-", "5", "0">> @@
       "18--50 years" :> <<"1", "8", "-", "-", "5", "0", " ", "y", "e", "a", "r", "s">> @@
       "18-50-60 years" :> <<"1", "8", "-", "5", "0", "-", "6", "0", " ", "y", "e", "a", "r", "s">> @@
       "+18-50 years" :> <<"+", "1", "8", "-", "5", "0", " ", "y", "e", "a", "r", "s">> @@
       "40 - 80 years" :> <<"4", "0", " ", "-", " ", "8", "0", " ", "y", "e", "a", "r", "s">> @@
       "Death Benefit Term protection, guaranteed traditional endowment" :>
           <<"D", "e", "a", "t", "h", " ", "B", "e", "n", "e", "f", "i", "t", " ", "T", "e", "r", "m", " ",
             "p", "r", "o", "t", "e", "c", "t", "i", "o", "n", ",", " ",
             "g", "u", "a", "r", "a", "n", "t", "e", "e", "d", " ",
             "t", "r", "a", "d", "i", "t", "i", "o", "n", "a", "l", " ",
             "e", "n", "d", "o", "w", "m", "e", "n", "t">> @@
       "Guaranteed Endowment protection" :> <<"G", "u", "a", "r", "a", "n", "t", "e", "e", "d", " ", "E", "n", "d", "o", "w", "m", "e", "n", "t", " ", "p", "r", "o", "t", "e", "c", "t", "i", "o", "n">> @@
       "Pension annuity Tax 80C" :> <<"P", "e", "n", "s", "i", "o", "n", " ", "a", "n", "n", "u", "i", "t", "y", " ", "T", "a", "x", " ", "8", "0", "C">> @@
       "Term Assurance" :> <<"T", "e", "r", "m", " ", "A", "s", "s", "u", "r", "a", "n", "c", "e">> @@
       "Endowment" :> <<"E", "n", "d", "o", "w", "m", "e", "n", "t">> @@
       "Pension" :> <<"P", "e", "n", "s", "i", "o", "n">> @@
       "" :> << >> @@
       " " :> <<" ">> @@
       "nan" :> <<"n", "a", "n">> @@
       "protection" :> <<"p", "r", "o", "t", "e", "c", "t", "i", "o", "n">> @@
       "savings" :> <<"s", "a", "v", "i", "n", "g", "s">> @@
       "guaranteed" :> <<"g", "u", "a", "r", "a", "n", "t", "e", "e", "d">> @@
       "endowment" :> <<"e", "n", "d", "o", "w", "m", "e", "n", "t">> @@
       "child" :> <<"c", "h", "i", "l", "d">> @@
       "education" :> <<"e", "d", "u", "c", "a", "t", "i", "o", "n">> @@
       "money back" :> <<"m", "o", "n", "e", "y", " ", "b", "a", "c", "k">> @@
       "survival" :> <<"s", "u", "r", "v", "i", "v", "a", "l">> @@
       "pension" :> <<"p", "e", "n", "s", "i", "o", "n">> @@
       "retirement" :> <<"r", "e", "t", "i", "r", "e", "m", "e", "n", "t">> @@
       "annuity" :> <<"a", "n", "n", "u", "i", "t", "y">> @@
       "death benefit" :> <<"d", "e", "a", "t", "h", " ", "b", "e", "n", "e", "f", "i", "t">> @@
       "term" :> <<"t", "e", "r", "m">> @@
       "tax" :> <<"t", "a", "x">> @@
       "80C" :> <<"8", "0", "C">> @@
       "deduction" :> <<"d", "e", "d", "u", "c", "t", "i", "o", "n">> @@
       "traditional" :> <<"t", "r", "a", "d", "i", "t", "i", "o", "n", "a", "l">> @@
       "balanced" :> <<"b", "a", "l", "a", "n", "c", "e", "d">> @@
       "unit linked" :> <<"u", "n", "i", "t", " ", "l", "i", "n", "k", "e", "d">> @@
       "market" :> <<"m", "a", "r", "k", "e", "t">> @@
       "investment" :> <<"i", "n", "v", "e", "s", "t", "m", "e", "n", "t">> @@
       "ulip" :> <<"u", "l", "i", "p">> @@
       "young" :> <<"y", "o", "u", "n", "g">> @@
       "family" :> <<"f", "a", "m", "i", "l", "y">>

UpperToLower ==
       "A" :> "a" @@ "B" :> "b" @@ "C" :> "c" @@ "D" :> "d" @@ "E" :> "e" @@
       "F" :> "f" @@ "G" :> "g" @@ "H" :> "h" @@ "I" :> "i" @@ "J" :> "j" @@
       "K" :> "k" @@ "L" :> "l" @@ "M" :> "m" @@ "N" :> "n" @@ "O" :> "o" @@
       "P" :> "p" @@ "Q" :> "q" @@ "R" :> "r" @@ "S" :> "s" @@ "T" :> "t" @@
       "U" :> "u" @@ "V" :> "v" @@ "W" :> "w" @@ "X" :> "x" @@ "Y" :> "y" @@
       "Z" :> "z"

DigitValue ==
       "0" :> 0 @@ "1" :> 1 @@ "2" :> 2 @@ "3" :> 3 @@ "4" :> 4 @@
       "5" :> 5 @@ "6" :> 6 @@ "7" :> 7 @@ "8" :> 8 @@ "9" :> 9

\* str.lower() on a character sequence
Lower(cs) == [i \in 1..Len(cs) |->
                IF cs[i] \in DOMAIN UpperToLower THEN UpperToLower[cs[i]] ELSE cs[i]]

\* Python's `needle in hay` for strings: needle occurs as a contiguous substring
Contains(hay, needle) ==
    \E i \in 0..(Len(hay) - Len(needle)) :
        \A j \in 1..Len(needle) : hay[i + j] = needle[j]

Min(a, b) == IF a <= b THEN a ELSE b

Range(f) == {f[i] : i \in DOMAIN f}

IsSpace(c) == c \in {" ", "\t", "\n"}

\* str.strip()
RECURSIVE LStrip(_)
LStrip(cs) == IF cs # << >> /\ IsSpace(Head(cs)) THEN LStrip(Tail(cs)) ELSE cs

RECURSIVE RStrip(_)
RStrip(cs) == IF cs # << >> /\ IsSpace(cs[Len(cs)])
              THEN RStrip(SubSeq(cs, 1, Len(cs) - 1)) ELSE cs

Strip(cs) == RStrip(LStrip(cs))

\* index of the first occurrence of character c in cs, or 0
FirstIndex(cs, c) ==
    IF c \in Range(cs) THEN CHOOSE i \in 1..Len(cs) :
                              cs[i] = c /\ \A j \in 1..(i - 1) : cs[j] # c
    ELSE 0

\* str.split(sep)[0] and str.split(sep)[1] for a separator that occurs in cs
SplitPart0(cs, sep) == SubSeq(cs, 1, FirstIndex(cs, sep) - 1)

SplitPart1(cs, sep) ==
    LET rest == SubSeq(cs, FirstIndex(cs, sep) + 1, Len(cs))
        k == FirstIndex(rest, sep)
    IN  IF k = 0 THEN rest ELSE SubSeq(rest, 1, k - 1)

\* str.split()[0]: the first whitespace-delimited token; IndexError when there is none
FirstToken(cs) ==
    LET t == LStrip(cs)
        sp == {i \in 1..Len(t) : IsSpace(t[i])}
        end == IF sp = {} THEN Len(t)
               ELSE (CHOOSE i \in sp : \A j \in sp : i <= j) - 1
    IN  IF t = << >> THEN [ok |-> FALSE, val |-> << >>]
        ELSE [ok |-> TRUE, val |-> SubSeq(t, 1, end)]

RECURSIVE DigitsValue(_)
DigitsValue(cs) == IF cs = << >> THEN 0
                   ELSE 10 * DigitsValue(SubSeq(cs, 1, Len(cs) - 1)) + DigitValue[cs[Len(cs)]]

\* int(text): surrounding whitespace and one sign are accepted; ValueError otherwise
IntOf(cs) ==
    LET t == Strip(cs)
        signed == t # << >> /\ t[1] \in {"+", "-"}
        digits == IF signed THEN Tail(t) ELSE t
        okDigits == digits # << >> /\ \A i \in 1..Len(digits) : digits[i] \in DOMAIN DigitValue
    IN  IF okDigits
        THEN [ok |-> TRUE,
              val |-> IF signed /\ t[1] = "-" THEN 0 - DigitsValue(digits)
                      ELSE DigitsValue(digits)]
        ELSE [ok |-> FALSE, val |-> 0]

DefaultAgeRange == <<DefaultAgeMin, DefaultAgeMax>>

\* variant: the part after the separator converted whole, without `.split()[0]`
parse_age_range_whole_part(age_str) ==
    IF age_str = NaN \/ age_str = "" THEN DefaultAgeRange
    ELSE LET cs == Spell[age_str] IN
         IF "-" \in Range(cs)
         THEN LET min_age == IntOf(Strip(SplitPart0(cs, "-")))
                  max_age == IntOf(Strip(SplitPart1(cs, "-")))
              IN  IF min_age.ok /\ max_age.ok
                  THEN <<min_age.val, max_age.val>>
                  ELSE DefaultAgeRange
         ELSE DefaultAgeRange

\* LICVectorKnowledgeBase.parse_age_range
parse_age_range(age_str) ==
    IF age_str = NaN \/ age_str = "" THEN DefaultAgeRange
    ELSE LET cs == Spell[age_str] IN
         IF "-" \in Range(cs)
         THEN LET min_age == IntOf(Strip(SplitPart0(cs, "-")))
                  tok == FirstToken(SplitPart1(cs, "-"))
                  max_age == IntOf(Strip(tok.val))
              IN  IF min_age.ok /\ tok.ok /\ max_age.ok
                  THEN <<min_age.val, max_age.val>>
                  ELSE DefaultAgeRange
         ELSE DefaultAgeRange

\* str(value) of a cell that may be NaN
Str(v) == IF v = NaN THEN "nan" ELSE v

RECURSIVE Join(_, _)
Join(parts, sep) == IF parts = << >> THEN ""
                    ELSE IF Len(parts) = 1 THEN parts[1]
                    ELSE parts[1] \o sep \o Join(Tail(parts), sep)

\* LICVectorKnowledgeBase.create_policy_text_for_embedding
create_policy_text_for_embedding(row) ==
    LET seg(label, field) == IF row[field] # NaN THEN <<label \o row[field]>> ELSE << >>
    IN  Join(<<"Policy: " \o Str(row.policy_name)>> \o
             <<"Category: " \o Str(row.category)>> \o
             seg("Features: ", "features_benefits") \o
             seg("Age eligibility: ", "eligibility_age") \o
             seg("Maturity benefits: ", "maturity_benefits") \o
             seg("Tax benefits: ", "tax_benefits") \o
             seg("Premium options: ", "premium_options") \o
             seg("Surrender: ", "surrender_clause"),
             " | ")

\* SentenceTransformer.encode: a deterministic function of the text
Encode(text) == "vec(" \o text \o ")"

(***************************************************************************)
(* Completeness score of a scraped policy, as a fraction of                *)
(* CompletenessDen.                                                        *)
(***************************************************************************)
CompletenessDen == TotalCompletenessFields * 20

\* variant: the sum of base score and bonuses without the cap at 1.0
completeness_score_uncapped(completed_fields, genuine5, eligibility_complete, pdf2) ==
    completed_fields * (CompletenessDen \div TotalCompletenessFields)
    + (IF genuine5 THEN CompletenessDen \div 10 ELSE 0)
    + (IF eligibility_complete THEN CompletenessDen \div 10 ELSE 0)
    + (IF pdf2 THEN CompletenessDen \div 20 ELSE 0)

\* EnhancedLICScraper.calculate_data_completeness_score
calculate_data_completeness_score(completed_fields, genuine5, eligibility_complete, pdf2) ==
    LET base_score == completed_fields * (CompletenessDen \div TotalCompletenessFields)
        quality_bonus == (IF genuine5 THEN CompletenessDen \div 10 ELSE 0)
                         + (IF eligibility_complete THEN CompletenessDen \div 10 ELSE 0)
                         + (IF pdf2 THEN CompletenessDen \div 20 ELSE 0)
    IN  Min(CompletenessDen, base_score + quality_bonus)

(***************************************************************************)
(* Rows of data/enhanced_lic_policies_vector_db.csv as pandas reads them:  *)
(* an empty cell is NaN.  Only policies scraped successfully (completeness *)
(* of at least 70%) are written to the file.                               *)
(***************************************************************************)
TermRow ==
    [policy_name |-> "Jeevan Term", plan_number |-> "954", uin_number |-> "512N350V01",
     category |-> "Term Assurance",
     features_benefits |-> "Death Benefit Term protection, guaranteed traditional endowment",
     eligibility_age |-> "18-50 years", medical_examination |-> "Required",
     premium_options |-> "Annual", maturity_benefits |-> NaN, tax_benefits |-> "80C",
     terms_conditions |-> NaN, riders_available |-> NaN, surrender_clause |-> NaN,
     data_completeness_score |-> calculate_data_completeness_score(13, TRUE, TRUE, TRUE),
     source_url |-> "https://licindia.in/term", scraped_timestamp |-> "2025-01-01T00:00:00"]

EndowmentRow ==
    [policy_name |-> "Jeevan Anand", plan_number |-> NaN, uin_number |-> NaN,
     category |-> "Endowment", features_benefits |-> "Guaranteed Endowment protection",
     eligibility_age |-> "N/A", medical_examination |-> NaN,
     premium_options |-> "Monthly", maturity_benefits |-> "Sum assured", tax_benefits |-> NaN,
     terms_conditions |-> NaN, riders_available |-> NaN, surrender_clause |-> "After 2 years",
     data_completeness_score |-> calculate_data_completeness_score(10, FALSE, FALSE, FALSE),
     source_url |-> "https://licindia.in/anand", scraped_timestamp |-> "2025-01-01T00:00:00"]

PensionRow ==
    [policy_name |-> "Jeevan Shanti", plan_number |-> "954", uin_number |-> "512N351V01",
     category |-> "Pension", features_benefits |-> "Pension annuity Tax 80C",
     eligibility_age |-> "40 - 80 years", medical_examination |-> NaN,
     premium_options |-> NaN, maturity_benefits |-> NaN, tax_benefits |-> "80C",
     terms_conditions |-> NaN, riders_available |-> NaN, surrender_clause |-> NaN,
     data_completeness_score |-> calculate_data_completeness_score(10, FALSE, FALSE, FALSE),
     source_url |-> "https://licindia.in/shanti", scraped_timestamp |-> "2025-01-01T00:00:00"]

ScrapedRows == {TermRow, EndowmentRow, PensionRow}

\* EnhancedLICScraper.save_enhanced_results: only scraped_successfully policies are written
CsvRows == {r \in ScrapedRows :
              r.data_completeness_score * 100 >= SuccessThresholdPct * CompletenessDen}

DataFrames(n) == UNION {[1..k -> CsvRows] : k \in 0..n}

\* eligibility_age cells as the scraper and hand-edited CSV files can hold them
EligibilityTexts ==
    {NaN, "", "N/A", "18-50 years", "40 - 80 years", "18-50 yrs", "18-50years",
     "18 to 50 years", "a-b years", "65-18 years", "18-", "-50 years", "18-50",
     "18--50 years", "18-50-60 years", "+18-50 years"}

EligibilityRows ==
    {[r EXCEPT !.eligibility_age = t] : r \in {TermRow, EndowmentRow}, t \in EligibilityTexts}

EligibilityFrames == UNION {[1..k -> EligibilityRows] : k \in 0..1}

NanSpellings == {"nan", "naN", "nAn", "nAN", "Nan", "NaN", "NAn", "NAN"}

NotNaOr(v, default) == IF v # NaN THEN v ELSE default

\* process_and_insert_policies, loop body: plan number of the row with index idx
PlanNumberOf(row, idx) ==
    IF row.plan_number = NaN \/ row.plan_number \in NanSpellings
    THEN "unknown_" \o ToString(idx)
    ELSE row.plan_number

\* process_and_insert_policies, loop body: policy_id of the row with index idx
PolicyIdOf(row, idx) == "lic_" \o PlanNumberOf(row, idx)

\* process_and_insert_policies, loop body: the metadata dict
MetadataOf(row, idx) ==
    LET range == parse_age_range(row.eligibility_age) IN
    [policy_id |-> PolicyIdOf(row, idx),
     policy_name |-> row.policy_name,
     plan_number |-> PlanNumberOf(row, idx),
     uin_number |-> NotNaOr(row.uin_number, ""),
     category |-> NotNaOr(row.category, "Unknown"),
     eligibility_age_min |-> range[1],
     eligibility_age_max |-> range[2],
     medical_examination |-> NotNaOr(row.medical_examination, ""),
     premium_options |-> NotNaOr(row.premium_options, ""),
     data_completeness_score |-> row.data_completeness_score,
     source_url |-> NotNaOr(row.source_url, ""),
     scraped_timestamp |-> NotNaOr(row.scraped_timestamp, "")]

\* process_and_insert_policies, loop body: the vector-collection document
DocumentOf(row, idx, now) ==
    [policy_id |-> PolicyIdOf(row, idx),
     policy_text |-> create_policy_text_for_embedding(row),
     embedding |-> Encode(create_policy_text_for_embedding(row)),
     policy_metadata |-> MetadataOf(row, idx),
     features_benefits |-> NotNaOr(row.features_benefits, ""),
     maturity_benefits |-> NotNaOr(row.maturity_benefits, ""),
     tax_benefits |-> NotNaOr(row.tax_benefits, ""),
     terms_conditions |-> NotNaOr(row.terms_conditions, ""),
     riders_available |-> NotNaOr(row.riders_available, ""),
     surrender_clause |-> NotNaOr(row.surrender_clause, ""),
     created_at |-> now]

\* process_and_insert_policies, loop body: {**metadata, "created_at": now}
MetadataDocOf(row, idx, now) == MetadataOf(row, idx) @@ [created_at |-> now]

\* Collection.insert_many (ordered): every inserted document gets its _id (oid, here
\* its insertion rank); with a unique index on policy_id the insert stops at the first
\* duplicate key and raises
RECURSIVE InsertMany(_, _, _)
InsertMany(coll, docs, unique) ==
    IF docs = << >> THEN [ok |-> TRUE, coll |-> coll]
    ELSE IF unique /\ \E i \in 1..Len(coll) : coll[i].policy_id = Head(docs).policy_id
         THEN [ok |-> FALSE, coll |-> coll]
         ELSE InsertMany(Append(coll, Head(docs) @@ [oid |-> Len(coll) + 1]),
                         Tail(docs), unique)

\* variant: the old documents are not removed
KeepDocuments(coll) == coll

\* Collection.delete_many({})
DeleteMany(coll) == << >>

\* LICVectorKnowledgeBase.process_and_insert_policies: the state of both collections
\* and the returned flag, for a data frame df read at time now into collections that
\* hold coll and meta; fail_at is the index of the row at which the embedding model
\* raises (0: it never raises)
process_and_insert_policies(coll, meta, df, unique, now, fail_at) ==
    LET documents == [i \in 1..Len(df) |-> DocumentOf(df[i], i - 1, now)]
        metadata_docs == [i \in 1..Len(df) |-> MetadataDocOf(df[i], i - 1, now)]
        result == InsertMany(DeleteMany(coll), documents, unique)
        metadata_result == InsertMany(DeleteMany(meta), metadata_docs, unique)
    IN  IF fail_at \in 1..Len(df) \/ Len(df) = 0
        THEN [value |-> FALSE, collection |-> DeleteMany(coll),
              metadata_collection |-> DeleteMany(meta)]
        ELSE IF ~result.ok
        THEN [value |-> FALSE, collection |-> result.coll,
              metadata_collection |-> DeleteMany(meta)]
        ELSE IF ~metadata_result.ok
        THEN [value |-> FALSE, collection |-> result.coll,
              metadata_collection |-> metadata_result.coll]
        ELSE [value |-> TRUE, collection |-> result.coll,
              metadata_collection |-> metadata_result.coll]

HasDuplicateKey(coll) ==
    \E i, j \in 1..Len(coll) : i < j /\ coll[i].policy_id = coll[j].policy_id

\* LICVectorKnowledgeBase.create_indexes: building a unique index over documents that
\* share a policy_id raises, and the function returns False
create_indexes(coll, meta, unique) ==
    IF HasDuplicateKey(coll) \/ HasDuplicateKey(meta)
    THEN [value |-> FALSE, unique_index |-> unique]
    ELSE [value |-> TRUE, unique_index |-> TRUE]

(***************************************************************************)
(* Query path: LICRAGQueryEngine.                                          *)
(***************************************************************************)
ScoreScale == 2 * 3 * TotalCompletenessFields

Has(d, k) == k \in DOMAIN d

\* truthiness of user_profile.get(k) for an integer and for a string field
TruthyInt(d, k) == Has(d, k) /\ d[k] # 0
TruthyStr(d, k) == Has(d, k) /\ d[k] # ""

RECURSIVE SortDesc(_, _)
\* list.sort(key=..., reverse=True): stable, equal keys keep their order
SortDesc(seq, key) ==
    IF seq = << >> THEN << >>
    ELSE LET sorted == SortDesc(SubSeq(seq, 1, Len(seq) - 1), key)
             x == seq[Len(seq)]
             n == Cardinality({i \in 1..Len(sorted) : sorted[i][key] >= x[key]})
         IN  SubSeq(sorted, 1, n) \o <<x>> \o SubSeq(sorted, n + 1, Len(sorted))

Take(seq, n) == SubSeq(seq, 1, Min(n, Len(seq)))

\* $vectorSearch stage: the numCandidates nearest documents, best first, cut to limit;
\* sim gives the vectorSearchScore of each stored embedding for the query
VectorSearchCandidates(coll, sim) ==
    Take(SortDesc([i \in 1..Len(coll) |->
                     coll[i] @@ [similarity_score |-> sim[coll[i].embedding]]],
                  "similarity_score"),
         NumCandidates)

VectorSearchStage(coll, sim, limit) == Take(VectorSearchCandidates(coll, sim), limit)

\* $match stage built from filters
MatchStage(docs, filters) ==
    LET ageOk(d) == Has(filters, "age") =>
                       /\ d.policy_metadata.eligibility_age_min <= filters.age
                       /\ d.policy_metadata.eligibility_age_max >= filters.age
        catOk(d) == Has(filters, "category") =>
                       d.policy_metadata.category = filters.category
        keep(d) == ageOk(d) /\ catOk(d)
    IN  SelectSeq(docs, keep)

\* $project stage
ProjectStage(docs) ==
    [i \in 1..Len(docs) |->
        [oid |-> docs[i].oid,
         policy_id |-> docs[i].policy_id,
         policy_metadata |-> docs[i].policy_metadata,
         features_benefits |-> docs[i].features_benefits,
         maturity_benefits |-> docs[i].maturity_benefits,
         tax_benefits |-> docs[i].tax_benefits,
         similarity_score |-> docs[i].similarity_score]]

\* a call either returns a value or raises an exception
Returns(v) == [raised |-> FALSE, value |-> v]
Raises(e) == [raised |-> TRUE, value |-> e]

\* variant: no handler, the exception reaches the caller
PropagateException(outcome) == outcome

\* `except Exception: return []`
ExceptReturnEmpty(outcome) == IF outcome.raised THEN Returns(<< >>) ELSE outcome

\* semantic_search, the body of its try block; store_ok is FALSE when the embedding
\* model or the aggregation raises
semantic_search_try(coll, sim, filters, limit, store_ok) ==
    IF ~store_ok THEN Raises("collaborator unavailable")
    ELSE Returns(ProjectStage(MatchStage(VectorSearchStage(coll, sim, limit), filters)))

\* LICRAGQueryEngine.semantic_search
semantic_search(coll, sim, filters, limit, store_ok) ==
    ExceptReturnEmpty(semantic_search_try(coll, sim, filters, limit, store_ok))

goal_mapping ==
    [wealth_creation |-> "protection savings guaranteed returns endowment",
     child_education |-> "child education money back survival benefits",
     retirement_planning |-> "pension retirement survival benefits annuity",
     family_protection |-> "death benefit protection term insurance",
     tax_saving |-> "tax benefits section 80C deductions"]

risk_mapping ==
    [conservative |-> "guaranteed returns endowment traditional",
     moderate |-> "money back survival benefits balanced",
     aggressive |-> "unit linked market investment"]

stage_mapping ==
    [single |-> "basic protection term insurance",
     young_family |-> "family protection child benefits",
     established_family |-> "comprehensive coverage education planning",
     pre_retirement |-> "pension retirement planning"]

MapGet(m, k, default) == IF k \in DOMAIN m THEN m[k] ELSE default

\* get_policy_recommendations: query_parts
QueryParts(user_profile) ==
    (IF TruthyStr(user_profile, "primary_goal")
     THEN <<MapGet(goal_mapping, user_profile.primary_goal, "")>> ELSE << >>) \o
    (IF TruthyStr(user_profile, "risk_comfort")
     THEN <<MapGet(risk_mapping, user_profile.risk_comfort, "")>> ELSE << >>) \o
    (IF TruthyStr(user_profile, "life_stage")
     THEN <<MapGet(stage_mapping, user_profile.life_stage, "")>> ELSE << >>)

\* get_policy_recommendations: the synthetic query text
BuildQuery(user_profile) == Join(QueryParts(user_profile), " ")

\* get_policy_recommendations: the filters
BuildFilters(user_profile) ==
    IF TruthyInt(user_profile, "age") THEN [age |-> user_profile.age] ELSE << >>

goal_keywords ==
    [wealth_creation |-> <<"protection", "savings", "guaranteed", "endowment">>,
     child_education |-> <<"child", "education", "money back", "survival">>,
     retirement_planning |-> <<"pension", "retirement", "annuity">>,
     family_protection |-> <<"death benefit", "protection", "term">>,
     tax_saving |-> <<"tax", "80C", "deduction">>]

risk_indicators ==
    [conservative |-> <<"guaranteed", "traditional", "endowment">>,
     moderate |-> <<"money back", "balanced", "survival">>,
     aggressive |-> <<"unit linked", "market", "investment">>]

AllKeywords == UNION {Range(goal_keywords[g]) : g \in DOMAIN goal_keywords}
               \cup UNION {Range(risk_indicators[r]) : r \in DOMAIN risk_indicators}

FeatureTexts == {NotNaOr(r.features_benefits, "") : r \in ScrapedRows}

\* `keyword in features` with features = policy.get('features_benefits', '').lower()
KeywordInFeatures(keyword, features_benefits) ==
    Contains(Lower(Spell[features_benefits]), Spell[keyword])

KeywordFound == [f \in FeatureTexts |-> [k \in AllKeywords |-> KeywordInFeatures(k, f)]]

Matches(keywords, features_benefits) ==
    Cardinality({i \in 1..Len(keywords) : KeywordFound[features_benefits][keywords[i]]})

AgeInRange(policy, age) ==
    /\ policy.policy_metadata.eligibility_age_min <= age
    /\ age <= policy.policy_metadata.eligibility_age_max

\* LICRAGQueryEngine._calculate_recommendation_score, in units of 1/ScoreScale
calculate_recommendation_score(policy, user_profile) ==
    LET ageKnown == TruthyInt(user_profile, "age")
        agePoints == IF ageKnown THEN AgeWeight * ScoreScale ELSE 0
        keywords == IF TruthyStr(user_profile, "primary_goal")
                    THEN MapGet(goal_keywords, user_profile.primary_goal, << >>)
                    ELSE << >>
        goalPoints == IF keywords # << >>
                      THEN (Matches(keywords, policy.features_benefits) * GoalWeight * ScoreScale)
                              \div Len(keywords)
                      ELSE 0
        indicators == IF TruthyStr(user_profile, "risk_comfort")
                      THEN MapGet(risk_indicators, user_profile.risk_comfort, << >>)
                      ELSE << >>
        riskPoints == IF indicators # << >>
                      THEN (Matches(indicators, policy.features_benefits) * RiskWeight * ScoreScale)
                              \div Len(indicators)
                      ELSE 0
        completeness == policy.policy_metadata.data_completeness_score
        bonus == (completeness * CompletenessWeight * ScoreScale) \div CompletenessDen
    IN  IF ageKnown /\ ~AgeInRange(policy, user_profile.age)
        THEN 0
        ELSE agePoints + goalPoints + riskPoints + bonus

\* get_policy_recommendations: the scoring loop
ScoreAll(results, user_profile) ==
    [i \in 1..Len(results) |->
        results[i] @@ [recommendation_score |->
                          calculate_recommendation_score(results[i], user_profile)]]

RECURSIVE SortDescTiesReversed(_, _)
\* variant: a sort that puts the later of two equal keys first
SortDescTiesReversed(seq, key) ==
    IF seq = << >> THEN << >>
    ELSE LET sorted == SortDescTiesReversed(SubSeq(seq, 1, Len(seq) - 1), key)
             x == seq[Len(seq)]
             n == Cardinality({i \in 1..Len(sorted) : sorted[i][key] > x[key]})
         IN  SubSeq(sorted, 1, n) \o <<x>> \o SubSeq(sorted, n + 1, Len(sorted))

\* variant: ranking with the sort that reverses ties
RankAndCutTiesReversed(scored) ==
    Take(SortDescTiesReversed(scored, "recommendation_score"), TopN)

\* variant: the cut to 3 is made on the retrieved list, before the sort
CutThenRank(scored) == SortDesc(Take(scored, TopN), "recommendation_score")

\* get_policy_recommendations: sort by score, best first, and keep the top 3
RankAndCut(scored) == Take(SortDesc(scored, "recommendation_score"), TopN)

\* get_policy_recommendations, the body of its try block
get_policy_recommendations_try(coll, user_profile, sim, store_ok) ==
    LET results == semantic_search(coll, sim, BuildFilters(user_profile),
                                   RecommendationSearchLimit, store_ok)
    IN  IF results.raised THEN results
        ELSE Returns(RankAndCut(ScoreAll(results.value, user_profile)))

\* LICRAGQueryEngine.get_policy_recommendations
get_policy_recommendations(coll, user_profile, sim, store_ok) ==
    ExceptReturnEmpty(get_policy_recommendations_try(coll, user_profile, sim, store_ok))

(***************************************************************************)
(* Dashboard: DashboardRecommendationEngine and the sales agent.  Premiums *)
(* are exact, in units of 1/PremiumDen rupee.                              *)
(***************************************************************************)
PremiumDen == 100 * 100 * 10

Get(d, k, default) == IF Has(d, k) THEN d[k] ELSE default

\* DashboardRecommendationEngine._estimate_premium
estimate_premium(monthly_income, age, recommendation) ==
    LET category == Lower(Spell[Get(Get(recommendation, "policy_metadata", << >>),
                                    "category", "")])
        category_factor == IF Contains(category, Spell["term"]) THEN TermFactorTenths
                           ELSE IF Contains(category, Spell["ulip"])
                                   \/ Contains(category, Spell["investment"])
                                THEN InvestmentFactorTenths
                                ELSE StandardFactorTenths
        age_factor == 100 + (age - AgeFactorPivot)
    IN  monthly_income * BasePremiumPct * age_factor * category_factor

\* variant: the buckets with exclusive upper boundaries
calculate_affordability_score_strict(premium, monthly_income) ==
    IF monthly_income = 0 THEN Raises("float division by zero")
    ELSE LET below(pct) == premium < pct * (PremiumDen \div 100) * monthly_income
         IN  Returns(IF below(ExcellentRatioPct) THEN "Excellent"
                     ELSE IF below(GoodRatioPct) THEN "Good"
                     ELSE IF below(ModerateRatioPct) THEN "Moderate"
                     ELSE "High")

\* DashboardRecommendationEngine._calculate_affordability_score
calculate_affordability_score(premium, monthly_income) ==
    IF monthly_income = 0 THEN Raises("float division by zero")
    ELSE LET atMost(pct) == premium <= pct * (PremiumDen \div 100) * monthly_income
         IN  Returns(IF atMost(ExcellentRatioPct) THEN "Excellent"
                     ELSE IF atMost(GoodRatioPct) THEN "Good"
                     ELSE IF atMost(ModerateRatioPct) THEN "Moderate"
                     ELSE "High")

\* DashboardRecommendationEngine._get_personalized_benefits
get_personalized_benefits(recommendation, user_profile) ==
    LET goal == Get(user_profile, "primary_goal", "")
        life_stage == Lower(Spell[Get(user_profile, "life_stage", "")])
        risk_comfort == Get(user_profile, "risk_comfort", "")
    IN  (IF goal = "child_education"
         THEN <<"Perfect for securing your child's educational future">>
         ELSE IF goal = "retirement_planning"
         THEN <<"Builds substantial retirement corpus with guaranteed returns">>
         ELSE IF goal = "wealth_creation"
         THEN <<"High growth potential with market-linked returns">>
         ELSE << >>) \o
        (IF Contains(life_stage, Spell["young"])
         THEN <<"Flexible premium payment options for growing careers">>
         ELSE IF Contains(life_stage, Spell["family"])
         THEN <<"Comprehensive family protection with multiple benefits">>
         ELSE << >>) \o
        (IF risk_comfort = "conservative"
         THEN <<"Guaranteed returns with capital protection">>
         ELSE IF risk_comfort = "aggressive"
         THEN <<"High growth potential with equity exposure">>
         ELSE << >>)

\* one turn of the loop of _enhance_recommendations
EnhanceOne(rec, user_profile) ==
    LET monthly_income == Get(user_profile, "monthly_income", DefaultMonthlyIncome)
        age == Get(user_profile, "age", DefaultAge)
        estimated_premium == estimate_premium(monthly_income, age, rec)
        affordability_score == calculate_affordability_score(estimated_premium,
                                                             monthly_income)
    IN  IF affordability_score.raised THEN affordability_score
        ELSE Returns(rec @@ [enhanced_data |->
                 [estimated_monthly_premium |-> estimated_premium,
                  affordability_score |-> affordability_score.value,
                  premium_to_income_ratio |-> estimated_premium \div monthly_income,
                  personalized_benefits |-> get_personalized_benefits(rec, user_profile),
                  risk_alignment |-> RiskAlignment,
                  goal_alignment |-> GoalAlignment]])

\* DashboardRecommendationEngine._enhance_recommendations: the first turn that raises
\* ends the loop
enhance_recommendations(recommendations, user_profile) ==
    LET turns == [i \in 1..Len(recommendations) |->
                     EnhanceOne(recommendations[i], user_profile)]
        failed == {i \in 1..Len(recommendations) : turns[i].raised}
    IN  IF failed # {} THEN turns[CHOOSE i \in failed : \A j \in failed : i <= j]
        ELSE Returns([i \in 1..Len(recommendations) |-> turns[i].value])

\* LICGeniusSalesAgent.generate_personalized_sales_pitch; llm is the state of the
\* language-model client: missing, failing or answering
generate_personalized_sales_pitch(llm) ==
    IF llm = "no_client" THEN "Sales agent unavailable. Please check configuration."
    ELSE IF llm = "error" THEN "Unable to generate personalized sales pitch at this time."
    ELSE "pitch" \o " --- agent signature"

RECURSIVE MaxScore(_)
MaxScore(recs) ==
    IF recs = << >> THEN 0
    ELSE LET rest == MaxScore(Tail(recs))
             x == Head(recs).recommendation_score
         IN  IF x >= rest THEN x ELSE rest

\* DashboardRecommendationEngine._calculate_overall_confidence
calculate_overall_confidence(recommendations) == MaxScore(recommendations)

\* variant: the handler hands back the list it had when the exception came
OnExceptionKeepingList(e, recommendations) ==
    [success |-> FALSE, error |-> e, recommendations |-> recommendations,
     sales_pitch |-> ""]

\* get_personalized_recommendations: the `except Exception as e` branch
OnException(e, recommendations) ==
    [success |-> FALSE, error |-> e, recommendations |-> << >>, sales_pitch |-> ""]

\* DashboardRecommendationEngine.get_personalized_recommendations
get_personalized_recommendations(engine, coll, user_profile, sim, store_ok, llm) ==
    IF ~engine
    THEN [success |-> FALSE, error |-> "RAG system not available",
          recommendations |-> << >>, sales_pitch |-> ""]
    ELSE LET recommendations == get_policy_recommendations(coll, user_profile, sim,
                                                           store_ok)
             enhanced == enhance_recommendations(recommendations.value, user_profile)
         IN  IF recommendations.raised
             THEN OnException(recommendations.value, << >>)
             ELSE IF recommendations.value = << >>
             THEN [success |-> FALSE, error |-> "No suitable policies found",
                   recommendations |-> << >>, sales_pitch |-> ""]
             ELSE IF enhanced.raised
             THEN OnException(enhanced.value, recommendations.value)
             ELSE [success |-> TRUE,
                   recommendations |-> enhanced.value,
                   sales_pitch |-> generate_personalized_sales_pitch(llm),
                   user_profile |-> user_profile,
                   total_policies_analyzed |-> TotalPoliciesAnalyzed,
                   recommendation_confidence |->
                       calculate_overall_confidence(enhanced.value)]

(***************************************************************************)
(* Figures shown to the customer: the sales context of the sales agent and *)
(* the quick actions of the chat.  Percentages are in thousandths; rupee   *)
(* amounts are exact fractions, rounded where the code rounds.             *)
(***************************************************************************)
Max(a, b) == IF a >= b THEN a ELSE b

\* round(num / den, 0) and the format spec .0f: to the nearest whole number, a tie to
\* the even one
RoundHalfEven(num, den) ==
    LET q == num \div den
        r == num % den
    IN  IF 2 * r < den THEN q
        ELSE IF 2 * r > den THEN q + 1
        ELSE IF q % 2 = 0 THEN q ELSE q + 1

\* variant: the percentage without `min(premium_percentage, 0.15)`
premium_percentage_uncapped(dependents, age) ==
    BasePremiumPerMille + dependents * DependentPerMille + Max(0, age - SalesAgePivot)

\* _prepare_sales_context: premium_percentage, in thousandths
premium_percentage(dependents, age) ==
    Min(BasePremiumPerMille + dependents * DependentPerMille
            + Max(0, age - SalesAgePivot),
        CapPerMille)

\* variant: the daily figure taken from the monthly one over a month of 30 days
suggested_daily_from_month(annual_num) ==
    RoundHalfEven(annual_num, 1000 * MonthsPerYear * ChatDaysPerMonth)

\* _prepare_sales_context: round(suggested_annual_premium / 365, 0), for the annual
\* premium annual_num / 1000
suggested_daily_premium(annual_num) == RoundHalfEven(annual_num, 1000 * DaysPerYear)

\* _prepare_sales_context: the financial_projections entry
financial_projections(user_profile) ==
    LET monthly_income == Get(user_profile, "monthly_income", DefaultMonthlyIncome)
        age == Get(user_profile, "age", DefaultAge)
        dependents == Get(user_profile, "dependents", DefaultDependents)
        pct == premium_percentage(dependents, age)
        annual_num == monthly_income * MonthsPerYear * pct
    IN  [suggested_monthly_premium |-> RoundHalfEven(annual_num, 1000 * MonthsPerYear),
         suggested_annual_premium |-> RoundHalfEven(annual_num, 1000),
         suggested_daily_premium |-> suggested_daily_premium(annual_num),
         recommended_life_cover |->
             monthly_income * MonthsPerYear
                 * (CoverBaseMultiple + dependents * CoverPerDependent),
         premium_percentage |-> pct]

\* LICGeniusSalesAgent._prepare_sales_context: customer summary and projections
prepare_sales_context(user_profile, recommended_policies) ==
    [customer_summary |->
        [age |-> Get(user_profile, "age", DefaultAge),
         monthly_income |-> Get(user_profile, "monthly_income", DefaultMonthlyIncome),
         annual_income |->
             Get(user_profile, "monthly_income", DefaultMonthlyIncome) * MonthsPerYear,
         dependents |-> Get(user_profile, "dependents", DefaultDependents)],
     financial_projections |-> financial_projections(user_profile),
     primary_category |->
         IF recommended_policies = << >> THEN "Comprehensive"
         ELSE recommended_policies[1].policy_metadata.category]

\* LICChatAgent._handle_quick_action: the figures its three answers carry
handle_quick_action(action, user_profile) ==
    LET monthly_income == Get(user_profile, "monthly_income", DefaultMonthlyIncome)
    IN  IF action = "premium_calculation"
        THEN [shown_income |-> Get(user_profile, "monthly_income", ChatDefaultShownIncome),
              per_month |-> RoundHalfEven(monthly_income * ChatPremiumPerMille, 1000),
              per_day |-> RoundHalfEven(monthly_income * ChatPremiumPerMille,
                                        1000 * ChatDaysPerMonth)]
        ELSE IF action = "tax_benefits"
        THEN [tax_saving |->
                 Min(TaxSavingCap,
                     RoundHalfEven(monthly_income * MonthsPerYear * ChatPremiumPerMille,
                                   1000))]
        ELSE [figures |-> << >>]

(***************************************************************************)
(* Inputs of the query path.                                               *)
(***************************************************************************)
Ages == {0, 30, 60}
Goals == {"family_protection", "astrology"}
Risks == {"conservative"}

AgeOpts == {<< >>} \cup {[age |-> a] : a \in Ages}
GoalOpts == {<< >>} \cup {[primary_goal |-> g] : g \in Goals}
RiskOpts == {<< >>} \cup {[risk_comfort |-> r] : r \in Risks}

Profiles == {a @@ g @@ r : a \in AgeOpts, g \in GoalOpts, r \in RiskOpts}

Incomes == {0, DefaultMonthlyIncome}
IncomeOpts == {<< >>} \cup {[monthly_income |-> m] : m \in Incomes}
DashProfiles == {p @@ m : p \in Profiles, m \in IncomeOpts}
LlmStates == {"no_client", "error", "ok"}

SalesIncomes == {20001, 33333, DefaultMonthlyIncome}
SalesIncomeOpts == {<< >>} \cup {[monthly_income |-> m] : m \in SalesIncomes}
DependentOpts == {<< >>} \cup {[dependents |-> d] : d \in 0..MaxDeps}
SalesProfiles == {a @@ m @@ d : a \in AgeOpts, m \in SalesIncomeOpts, d \in DependentOpts}
QuickActions == {"premium_calculation", "tax_benefits", "schedule_call"}

\* the vectorSearchScore the store computes for each stored embedding, per query
Sims(coll) == [{coll[i].embedding : i \in 1..Len(coll)} -> 1..SimLevels]

NoRun == [df |-> << >>, fail_at |-> 0, done |-> FALSE]

\* no call is in progress and no result is waiting for its caller
Idle == [op |-> "idle"]

\* no run of process_and_insert_policies is under way
NoJob == [pc |-> "none"]

\* no browser session is open
NoSession == [current_page |-> "none"]

(***************************************************************************)
(* Query specification: the index holds the result of one ingestion run;   *)
(* searches and recommendation requests arrive in any order.               *)
(***************************************************************************)
Init ==
    \E df \in DataFrames(MaxDocs) :
        LET run == process_and_insert_policies(<< >>, << >>, df, FALSE, 1, 0) IN
        /\ collection = run.collection
        /\ metadata_collection = run.metadata_collection
        /\ unique_index = FALSE
        /\ clock = 1
        /\ lastRun = NoRun
        /\ rag_engine = TRUE
        /\ ret = Idle
        /\ job = NoJob
        /\ session = NoSession
        /\ chat_collection = << >>

SemanticSearch ==
    \E sim \in Sims(collection), filters \in AgeOpts, limit \in 1..MaxLimit,
       store_ok \in BOOLEAN :
        /\ ret = Idle
        /\ ret' = [op |-> "semantic_search",
                   filters |-> filters,
                   limit |-> limit,
                   store_ok |-> store_ok,
                   candidates |-> IF store_ok
                                  THEN VectorSearchCandidates(collection, sim)
                                  ELSE << >>,
                   outcome |-> semantic_search(collection, sim, filters, limit, store_ok)]
        /\ UNCHANGED <<collection, metadata_collection, unique_index, clock, lastRun,
                       rag_engine, job, session, chat_collection>>

GetPolicyRecommendations ==
    \E user_profile \in Profiles, sim \in Sims(collection), store_ok \in BOOLEAN :
        /\ ret = Idle
        /\ ret' = [op |-> "get_policy_recommendations",
                   user_profile |-> user_profile,
                   query |-> BuildQuery(user_profile),
                   store_ok |-> store_ok,
                   retrieved |-> IF store_ok
                                 THEN VectorSearchStage(collection, sim,
                                                        RecommendationSearchLimit)
                                 ELSE << >>,
                   outcome |-> get_policy_recommendations(collection, user_profile, sim,
                                                          store_ok)]
        /\ UNCHANGED <<collection, metadata_collection, unique_index, clock, lastRun,
                       rag_engine, job, session, chat_collection>>

\* the caller takes the returned value; the next call can start
Return ==
    /\ ret # Idle
    /\ ret' = Idle
    /\ UNCHANGED <<collection, metadata_collection, unique_index, clock, lastRun,
                   rag_engine, job, session, chat_collection>>

Next == SemanticSearch \/ GetPolicyRecommendations \/ Return

Spec == Init /\ [][Next]_vars

(***************************************************************************)
(* Ingestion specification: the setup script is run, and run again, on     *)
(* data frames read from the CSV file; each run ingests and then builds    *)
(* the indexes.                                                            *)
(***************************************************************************)
InitIngest ==
    /\ collection = << >>
    /\ metadata_collection = << >>
    /\ unique_index = FALSE
    /\ clock = 0
    /\ lastRun = NoRun
    /\ rag_engine = TRUE
    /\ ret = Idle
    /\ job = NoJob
    /\ session = NoSession
    /\ chat_collection = << >>

ProcessAndInsertPolicies ==
    \E df \in DataFrames(MaxBatch), fail_at \in 0..MaxBatch :
        LET run == process_and_insert_policies(collection, metadata_collection, df,
                                               unique_index, clock + 1, fail_at)
        IN  /\ ret = Idle
            /\ clock < MaxClock
            /\ clock' = clock + 1
            /\ collection' = run.collection
            /\ metadata_collection' = run.metadata_collection
            /\ lastRun' = [df |-> df, fail_at |-> fail_at, done |-> run.value]
            /\ ret' = [op |-> "process_and_insert_policies",
                       previous |-> lastRun,
                       outcome |-> Returns(run.value)]
            /\ UNCHANGED <<unique_index, rag_engine, job, session, chat_collection>>

CreateIndexes ==
    LET built == create_indexes(collection, metadata_collection, unique_index)
    IN  /\ ret = Idle
        /\ lastRun.done
        /\ unique_index' = built.unique_index
        /\ ret' = [op |-> "create_indexes", outcome |-> Returns(built.value)]
        /\ UNCHANGED <<collection, metadata_collection, clock, lastRun, rag_engine, job,
                       session, chat_collection>>

NextIngest == ProcessAndInsertPolicies \/ CreateIndexes \/ Return

SpecIngest == InitIngest /\ [][NextIngest]_vars

(***************************************************************************)
(* Eligibility specification: ingestion of data frames whose               *)
(* eligibility_age cells cover the texts parse_age_range can be given.     *)
(***************************************************************************)
IngestEligibilityTexts ==
    \E df \in EligibilityFrames :
        LET run == process_and_insert_policies(collection, metadata_collection, df,
                                               unique_index, clock + 1, 0)
        IN  /\ ret = Idle
            /\ clock < MaxClock
            /\ clock' = clock + 1
            /\ collection' = run.collection
            /\ metadata_collection' = run.metadata_collection
            /\ lastRun' = [df |-> df, fail_at |-> 0, done |-> run.value]
            /\ ret' = [op |-> "ingest_eligibility_texts", outcome |-> Returns(run.value)]
            /\ UNCHANGED <<unique_index, rag_engine, job, session, chat_collection>>

NextEligibility == IngestEligibilityTexts \/ Return

SpecEligibility == InitIngest /\ [][NextEligibility]_vars

(***************************************************************************)
(* Interleaving specification: the index holds a completed batch; one run  *)
(* of process_and_insert_policies goes through its database operations one *)
(* at a time while searches arrive between them.  A search is one          *)
(* aggregation; its result is handed over before the run takes its next    *)
(* step.                                                                   *)
(***************************************************************************)
InitInterleave ==
    \E df \in DataFrames(MaxBatch) :
        LET run == process_and_insert_policies(<< >>, << >>, df, FALSE, 1, 0) IN
        /\ collection = run.collection
        /\ metadata_collection = run.metadata_collection
        /\ unique_index = FALSE
        /\ clock = 1
        /\ lastRun = [df |-> df, fail_at |-> 0, done |-> run.value]
        /\ rag_engine = TRUE
        /\ ret = Idle
        /\ job = NoJob
        /\ session = NoSession
        /\ chat_collection = << >>

\* process_and_insert_policies is called
StartRun ==
    \E df \in DataFrames(MaxBatch), fail_at \in 0..MaxBatch :
        /\ ret = Idle
        /\ job = NoJob
        /\ clock < MaxClock
        /\ clock' = clock + 1
        /\ job' = [pc |-> "delete", df |-> df, fail_at |-> fail_at, k |-> 1]
        /\ UNCHANGED <<collection, metadata_collection, unique_index, lastRun, rag_engine,
                       ret, session, chat_collection>>

\* the run returns: True when it came to its end, False from its exception handler
EndRun(done) ==
    /\ job' = NoJob
    /\ lastRun' = [df |-> job.df, fail_at |-> job.fail_at, done |-> done]

\* self.collection.delete_many({})
DeleteCollection ==
    /\ ret = Idle
    /\ job.pc = "delete"
    /\ collection' = DeleteMany(collection)
    /\ job' = [job EXCEPT !.pc = "delete_meta"]
    /\ UNCHANGED <<metadata_collection, unique_index, clock, lastRun, rag_engine, ret,
                   session, chat_collection>>

\* self.metadata_collection_obj.delete_many({})
DeleteMetadata ==
    /\ ret = Idle
    /\ job.pc = "delete_meta"
    /\ metadata_collection' = DeleteMany(metadata_collection)
    /\ job' = [job EXCEPT !.pc = "loop"]
    /\ UNCHANGED <<collection, unique_index, clock, lastRun, rag_engine, ret,
                   session, chat_collection>>

\* the loop over the rows: it builds the documents, or the embedding model raises at
\* row fail_at; insert_many of an empty list raises
BuildDocuments ==
    /\ ret = Idle
    /\ job.pc = "loop"
    /\ IF job.fail_at \in 1..Len(job.df) \/ Len(job.df) = 0
       THEN /\ EndRun(FALSE)
       ELSE /\ job' = [job EXCEPT !.pc = "insert"]
            /\ UNCHANGED lastRun
    /\ UNCHANGED <<collection, metadata_collection, unique_index, clock, rag_engine, ret,
                   session, chat_collection>>

\* self.collection.insert_many(documents): the documents are written one by one
InsertDocument ==
    LET written == InsertMany(collection,
                              <<DocumentOf(job.df[job.k], job.k - 1, clock)>>,
                              unique_index)
    IN  /\ ret = Idle
        /\ job.pc = "insert"
        /\ collection' = written.coll
        /\ IF ~written.ok
           THEN /\ EndRun(FALSE)
           ELSE /\ job' = IF job.k = Len(job.df)
                           THEN [job EXCEPT !.pc = "insert_meta", !.k = 1]
                           ELSE [job EXCEPT !.k = job.k + 1]
                /\ UNCHANGED lastRun
        /\ UNCHANGED <<metadata_collection, unique_index, clock, rag_engine, ret,
                       session, chat_collection>>

\* self.metadata_collection_obj.insert_many(metadata_docs), one by one, then return True
InsertMetadataDoc ==
    LET written == InsertMany(metadata_collection,
                              <<MetadataDocOf(job.df[job.k], job.k - 1, clock)>>,
                              unique_index)
    IN  /\ ret = Idle
        /\ job.pc = "insert_meta"
        /\ metadata_collection' = written.coll
        /\ IF ~written.ok
           THEN /\ EndRun(FALSE)
           ELSE IF job.k = Len(job.df)
           THEN /\ EndRun(TRUE)
           ELSE /\ job' = [job EXCEPT !.k = job.k + 1]
                /\ UNCHANGED lastRun
        /\ UNCHANGED <<collection, unique_index, clock, rag_engine, ret, session, chat_collection>>

NextInterleave ==
    \/ StartRun \/ DeleteCollection \/ DeleteMetadata \/ BuildDocuments
    \/ InsertDocument \/ InsertMetadataDoc
    \/ SemanticSearch \/ Return

SpecInterleave == InitInterleave /\ [][NextInterleave]_vars

(***************************************************************************)
(* Figures specification: for a profile and the policies recommended to    *)
(* it, the sales agent prepares its context and the chat answers the quick *)
(* action buttons.                                                         *)
(***************************************************************************)
InitFigures ==
    \E df \in DataFrames(1) :
        LET run == process_and_insert_policies(<< >>, << >>, df, FALSE, 1, 0) IN
        /\ collection = run.collection
        /\ metadata_collection = run.metadata_collection
        /\ unique_index = FALSE
        /\ clock = 1
        /\ lastRun = NoRun
        /\ rag_engine = TRUE
        /\ ret = Idle
        /\ job = NoJob
        /\ session = NoSession
        /\ chat_collection = << >>

\* the enhanced recommendations the dashboard hands to the sales agent and the chat
RecommendedTo(user_profile) ==
    LET sim == [e \in {collection[i].embedding : i \in 1..Len(collection)} |-> 1]
        found == get_policy_recommendations(collection, user_profile, sim, TRUE).value
    IN  enhance_recommendations(found, user_profile)

PrepareSalesContext ==
    \E user_profile \in SalesProfiles :
        /\ ret = Idle
        /\ ~RecommendedTo(user_profile).raised
        /\ ret' = [op |-> "prepare_sales_context",
                   user_profile |-> user_profile,
                   recommended_policies |-> RecommendedTo(user_profile).value,
                   context |-> prepare_sales_context(user_profile,
                                                     RecommendedTo(user_profile).value)]
        /\ UNCHANGED <<collection, metadata_collection, unique_index, clock, lastRun,
                       rag_engine, job, session, chat_collection>>

HandleQuickAction ==
    \E action \in QuickActions, user_profile \in SalesProfiles :
        /\ ret = Idle
        /\ ~RecommendedTo(user_profile).raised
        /\ ret' = [op |-> "handle_quick_action",
                   action |-> action,
                   user_profile |-> user_profile,
                   recommended_policies |-> RecommendedTo(user_profile).value,
                   response |-> handle_quick_action(action, user_profile)]
        /\ UNCHANGED <<collection, metadata_collection, unique_index, clock, lastRun,
                       rag_engine, job, session, chat_collection>>

NextFigures == PrepareSalesContext \/ HandleQuickAction \/ Return

SpecFigures == InitFigures /\ [][NextFigures]_vars

(***************************************************************************)
(* Scoring specification: _calculate_recommendation_score applied to a     *)
(* stored policy for profiles over every goal and risk value the profile   *)
(* form offers, and over values it does not know.                          *)
(***************************************************************************)
ScoreGoalOpts ==
    {<< >>} \cup {[primary_goal |-> g] : g \in DOMAIN goal_keywords \cup {"astrology"}}

ScoreRiskOpts ==
    {<< >>} \cup {[risk_comfort |-> r] : r \in DOMAIN risk_indicators \cup {"reckless"}}

ScoreProfiles == {a @@ g @@ r : a \in AgeOpts, g \in ScoreGoalOpts, r \in ScoreRiskOpts}

CalculateRecommendationScore ==
    \E user_profile \in ScoreProfiles, i \in 1..Len(collection) :
        /\ ret = Idle
        /\ ret' = [op |-> "calculate_recommendation_score",
                   policy |-> collection[i],
                   user_profile |-> user_profile,
                   score |-> calculate_recommendation_score(collection[i], user_profile)]
        /\ UNCHANGED <<collection, metadata_collection, unique_index, clock, lastRun,
                       rag_engine, job, session, chat_collection>>

NextScoring == CalculateRecommendationScore \/ Return

SpecScoring == InitFigures /\ [][NextScoring]_vars

(***************************************************************************)
(* Collected-profile specification: get_policy_recommendations for the     *)
(* profiles the profile form of the dashboard can produce.                 *)
(***************************************************************************)
\* DashboardConfig: the keys of LIFE_STAGES, FINANCIAL_GOALS and RISK_PROFILES
LIFE_STAGES ==
    {"Single Professional", "Married (No Children)", "Young Family (Kids <10)",
     "Established Family (Kids 10+)", "Pre-Retirement (50+)"}

FINANCIAL_GOALS ==
    {"wealth_creation", "child_education", "retirement_planning", "family_protection",
     "tax_optimization", "legacy_planning"}

RISK_PROFILES == {"conservative", "moderate", "aggressive"}

\* UserProfileCollector: the fields of a completed profile that the query engine reads
CollectedProfiles ==
    {[age |-> a, life_stage |-> l, primary_goal |-> g, risk_comfort |-> r] :
        a \in Ages \ {0}, l \in LIFE_STAGES, g \in FINANCIAL_GOALS, r \in RISK_PROFILES}

RecommendForCollectedProfile ==
    \E user_profile \in CollectedProfiles, sim \in Sims(collection) :
        /\ ret = Idle
        /\ ret' = [op |-> "recommend_for_collected_profile",
                   user_profile |-> user_profile,
                   query_parts |-> QueryParts(user_profile),
                   query |-> BuildQuery(user_profile),
                   outcome |-> get_policy_recommendations(collection, user_profile, sim,
                                                          TRUE)]
        /\ UNCHANGED <<collection, metadata_collection, unique_index, clock, lastRun,
                       rag_engine, job, session, chat_collection>>

NextCollected == RecommendForCollectedProfile \/ Return

SpecCollected == InitFigures /\ [][NextCollected]_vars

(***************************************************************************)
(* Flattening specification: the weighted completeness score that          *)
(* flatten_policy_data_for_vector_db gives to a scraped policy.  Weights   *)
(* are in halves, the score in hundredths of a percent.                    *)
(***************************************************************************)
\* flatten_policy_data_for_vector_db: required_fields, weights doubled
required_fields ==
    [policy_name |-> 2, plan_number |-> 2, uin_number |-> 2,
     features_benefits_text |-> 2, age_range |-> 3, age_limit |-> 2,
     income_requirement |-> 3, medical_examination |-> 2,
     premium_payment_options |-> 2, maturity_benefits_text |-> 3,
     surrender_clause |-> 2, tax_benefits_text |-> 2, terms_conditions_text |-> 2]

RECURSIVE SumOver(_, _)
SumOver(f, keys) ==
    IF keys = {} THEN 0
    ELSE LET k == CHOOSE x \in keys : TRUE IN f[k] + SumOver(f, keys \ {k})

\* flatten_policy_data_for_vector_db: data_completeness_score of the flattened record
flattened_completeness_score(flattened) ==
    LET filled(field) == /\ flattened[field] # ""
                         /\ Strip(Spell[flattened[field]]) # << >>
                         /\ flattened[field] # "nan"
        achieved(field) ==
            IF ~filled(field) THEN 0
            ELSE IF field = "age_limit" /\ flattened.age_range # "" THEN 0
            ELSE required_fields[field]
        achieved_weight == SumOver([f \in DOMAIN required_fields |-> achieved(f)],
                                   DOMAIN required_fields)
        total_weight == SumOver(required_fields, DOMAIN required_fields)
    IN  RoundHalfEven(achieved_weight * 100 * 100, total_weight)

\* flattened records: at most MaxEmptyFields of the other text fields empty, the two
\* age fields filled, empty, blank or the text "nan"
FlattenedRecords ==
    {other @@ ages :
        other \in {o \in [DOMAIN required_fields \ {"age_range", "age_limit"}
                              -> {"", "Guaranteed Endowment protection"}] :
                      Cardinality({f \in DOMAIN o : o[f] = ""}) <= MaxEmptyFields},
        ages \in [{"age_range", "age_limit"} -> {"", " ", "nan", "18-50 years"}]}

FlattenPolicyData ==
    \E flattened \in FlattenedRecords :
        /\ ret = Idle
        /\ ret' = [op |-> "flatten_policy_data_for_vector_db",
                   flattened |-> flattened,
                   data_completeness_score |-> flattened_completeness_score(flattened)]
        /\ UNCHANGED <<collection, metadata_collection, unique_index, clock, lastRun,
                       rag_engine, job, session, chat_collection>>

NextFlatten == FlattenPolicyData \/ Return

SpecFlatten == InitIngest /\ [][NextFlatten]_vars

(***************************************************************************)
(* Embedding-text specification: create_policy_text_for_embedding applied  *)
(* to rows as pandas reads them, each cell a text or NaN.                  *)
(***************************************************************************)
TextRows ==
    [{"policy_name", "category", "features_benefits", "eligibility_age",
      "maturity_benefits", "tax_benefits", "premium_options", "surrender_clause"}
        -> {NaN, "Endowment"}]

CreatePolicyTextForEmbedding ==
    \E row \in TextRows :
        /\ ret = Idle
        /\ ret' = [op |-> "create_policy_text_for_embedding",
                   row |-> row,
                   policy_text |-> create_policy_text_for_embedding(row)]
        /\ UNCHANGED <<collection, metadata_collection, unique_index, clock, lastRun,
                       rag_engine, job, session, chat_collection>>

NextText == CreatePolicyTextForEmbedding \/ Return

SpecText == InitIngest /\ [][NextText]_vars

(***************************************************************************)
(* Premium specification: _estimate_premium and                            *)
(* _calculate_affordability_score applied to premiums, incomes, ages and   *)
(* category names.                                                         *)
(***************************************************************************)
\* category names: those the scraper writes (the keys of POLICY_CATEGORIES), those of
\* the sample rows, other spellings, and a recommendation without category
CategoryOpts ==
    {<< >>} \cup
    {[policy_metadata |-> [category |-> c]] :
        c \in {"Insurance_Plans", "Pension_Plans", "Unit_Linked_Plans",
               "Micro_Insurance_Plans", "Term Assurance", "Endowment", "ULIP",
               "Investment Plan"}}

EstimatePremium ==
    \E monthly_income \in SalesIncomes, age \in Ages \cup {DefaultAge},
       recommendation \in CategoryOpts :
        /\ ret = Idle
        /\ ret' = [op |-> "estimate_premium",
                   monthly_income |-> monthly_income,
                   age |-> age,
                   recommendation |-> recommendation,
                   premium |-> estimate_premium(monthly_income, age, recommendation)]
        /\ UNCHANGED <<collection, metadata_collection, unique_index, clock, lastRun,
                       rag_engine, job, session, chat_collection>>

\* premiums in whole rupees against small incomes, so that every boundary is hit
CalculateAffordabilityScore ==
    \E premium \in 0..MaxPremium, monthly_income \in {20, 40, 100} :
        /\ ret = Idle
        /\ ret' = [op |-> "calculate_affordability_score",
                   premium |-> premium,
                   monthly_income |-> monthly_income,
                   outcome |-> calculate_affordability_score(premium * PremiumDen,
                                                             monthly_income)]
        /\ UNCHANGED <<collection, metadata_collection, unique_index, clock, lastRun,
                       rag_engine, job, session, chat_collection>>

NextPremium == EstimatePremium \/ CalculateAffordabilityScore \/ Return

SpecPremium == InitIngest /\ [][NextPremium]_vars

(***************************************************************************)
(* Session specification: one browser session of the dashboard.  session   *)
(* is st.session_state, chat_collection the chat collection in MongoDB.    *)
(* Every user event reruns the script: the action of an event is the       *)
(* handler of the widget followed by the display of the current page.      *)
(* recommendation_data carries, besides the fields the code stores, the    *)
(* profile values it was computed from.                                    *)
(***************************************************************************)
None == << >>

\* ChatDatabaseManager.save_chat_message: update_one on the session document, no upsert
save_chat_message(coll, session_id, user_message, agent_message) ==
    LET hit == {i \in 1..Len(coll) : coll[i].session_id = session_id}
        first == CHOOSE i \in hit : \A j \in hit : i <= j
    IN  IF hit = {} THEN coll
        ELSE [coll EXCEPT ![first].conversation_history =
                 Append(@, [user_message |-> user_message,
                            agent_response |-> agent_message])]

\* variant: the flag is set without storing the result of the recommendation run
mark_generated_only(s, coll, result) ==
    IF s.current_page = "recommendations" /\ s.user_profile_complete
       /\ ~s.recommendations_generated
    THEN [session |-> [s EXCEPT !.recommendations_generated = TRUE],
          chat_collection |-> coll, call |-> Idle]
    ELSE [session |-> s, chat_collection |-> coll, call |-> Idle]

\* LICDashboard.run: the display of the current page, with its writes to the session
\* state and the database; result is what a recommendation run returns if one is made
display_page(s, coll, result) ==
    IF s.current_page = "profile_collection"
    THEN [session |-> IF Has(s, "user_profile") THEN s
                      ELSE s @@ [user_profile |-> [age |-> DefaultAge,
                                                   monthly_income |-> DefaultMonthlyIncome]],
          chat_collection |-> coll, call |-> Idle]
    ELSE IF s.current_page = "recommendations"
    THEN IF s.user_profile_complete /\ ~s.recommendations_generated
         THEN [session |-> [s EXCEPT !.recommendation_data =
                                         result @@ [computed_from |-> s.user_profile],
                                     !.recommendations_generated = TRUE],
               chat_collection |-> coll,
               call |-> [op |-> "get_personalized_recommendations"]]
         ELSE [session |-> s, chat_collection |-> coll, call |-> Idle]
    ELSE IF s.current_page = "chat_agent" /\ s.recommendations_generated
    THEN \* initialize_chat_interface(user_profile, recommendation_data.get(...))
         LET created == ~Has(s, "chat_session_id")
             opened == IF created THEN s @@ [chat_session_id |-> "uuid_1"] ELSE s
             introduced == IF Has(opened, "chat_messages") THEN opened
                           ELSE opened @@ [chat_messages |-> <<"introduction">>]
         IN  [session |-> introduced,
              chat_collection |->
                  IF created
                  THEN Append(coll, [session_id |-> "uuid_1",
                                     user_profile |-> s.user_profile,
                                     conversation_history |-> << >>])
                  ELSE coll,
              call |-> [op |-> "initialize_chat_interface",
                        raised |-> s.recommendation_data = None]]
    ELSE [session |-> s, chat_collection |-> coll, call |-> Idle]

\* the first run of the script: LICChatAgent.__init__ and _initialize_session_state
\* fill the session state, then the profile page is displayed
InitSession ==
    /\ collection = << >>
    /\ metadata_collection = << >>
    /\ unique_index = FALSE
    /\ clock = 0
    /\ lastRun = NoRun
    /\ rag_engine = TRUE
    /\ job = NoJob
    /\ LET shown == display_page([chat_messages |-> << >>,
                                  chat_session_id |-> "time_0",
                                  current_page |-> "profile_collection",
                                  user_profile_complete |-> FALSE,
                                  recommendations_generated |-> FALSE,
                                  recommendation_data |-> None],
                                 << >>, None)
       IN  /\ session = shown.session
           /\ chat_collection = shown.chat_collection
           /\ ret = shown.call

\* a sidebar button, or a button of a page that leads to another page
Navigate ==
    \E page \in {"profile_collection", "recommendations", "chat_agent", "analytics"},
       success \in BOOLEAN :
        LET shown == display_page([session EXCEPT !.current_page = page], chat_collection,
                                  [success |-> success])
        IN  /\ session' = shown.session
            /\ chat_collection' = shown.chat_collection
            /\ ret' = shown.call
            /\ UNCHANGED <<collection, metadata_collection, unique_index, clock, lastRun,
                           rag_engine, job>>

\* a widget of the profile form is changed: the form writes its values into
\* st.session_state.user_profile
EditProfile ==
    \E age \in {DefaultAge, 60}, monthly_income \in {DefaultMonthlyIncome, 75000} :
        /\ session.current_page = "profile_collection"
        /\ session' = [session EXCEPT !.user_profile =
                           [age |-> age, monthly_income |-> monthly_income]]
        /\ ret' = Idle
        /\ UNCHANGED <<collection, metadata_collection, unique_index, clock, lastRun,
                       rag_engine, job, chat_collection>>

\* the button of the summary tab: _display_profile_collection_page takes the profile
SubmitProfile ==
    \E success \in BOOLEAN :
        LET shown == display_page([session EXCEPT !.user_profile_complete = TRUE,
                                                  !.current_page = "recommendations"],
                                  chat_collection, [success |-> success])
        IN  /\ session.current_page = "profile_collection"
            /\ session' = shown.session
            /\ chat_collection' = shown.chat_collection
            /\ ret' = shown.call
            /\ UNCHANGED <<collection, metadata_collection, unique_index, clock, lastRun,
                           rag_engine, job>>

\* the button "Update Profile" of the recommendations page
UpdateProfile ==
    LET shown == display_page([session EXCEPT !.current_page = "profile_collection",
                                              !.user_profile_complete = FALSE,
                                              !.recommendations_generated = FALSE],
                              chat_collection, None)
    IN  /\ session.current_page = "recommendations"
        /\ session.user_profile_complete
        /\ session.recommendation_data # None
        /\ session' = shown.session
        /\ chat_collection' = shown.chat_collection
        /\ ret' = shown.call
        /\ UNCHANGED <<collection, metadata_collection, unique_index, clock, lastRun,
                       rag_engine, job>>

\* _handle_chat_input and _handle_quick_action: an exchange is added to the messages
\* on screen and saved under the session id
SendChatMessage ==
    \E kind \in {"question", "quick_action"} :
        /\ session.current_page = "chat_agent"
        /\ session.recommendations_generated
        /\ Len(session.chat_messages) < 2 * MaxExchanges
        /\ session' = [session EXCEPT !.chat_messages =
                           IF kind = "question" THEN @ \o <<"question", "response">>
                           ELSE Append(@, "quick_action_response")]
        /\ chat_collection' = save_chat_message(chat_collection, session.chat_session_id,
                                                kind, "response")
        /\ ret' = [op |-> "save_chat_message",
                   session_id |-> session.chat_session_id,
                   user_message |-> kind]
        /\ UNCHANGED <<collection, metadata_collection, unique_index, clock, lastRun,
                       rag_engine, job>>

SpecSession ==
    InitSession /\ [][Navigate \/ EditProfile \/ SubmitProfile \/ UpdateProfile
                         \/ SendChatMessage]_vars

(***************************************************************************)
(* Dashboard specification: the engine is built once (the connection to    *)
(* the knowledge base succeeds or not), then profiles are submitted.       *)
(***************************************************************************)
InitDash ==
    \E df \in DataFrames(MaxBatch), connected \in BOOLEAN :
        LET run == process_and_insert_policies(<< >>, << >>, df, FALSE, 1, 0) IN
        /\ collection = run.collection
        /\ metadata_collection = run.metadata_collection
        /\ unique_index = FALSE
        /\ clock = 1
        /\ lastRun = NoRun
        /\ rag_engine = connected
        /\ ret = Idle
        /\ job = NoJob
        /\ session = NoSession
        /\ chat_collection = << >>

GetPersonalizedRecommendations ==
    \E user_profile \in DashProfiles, sim \in Sims(collection), store_ok \in BOOLEAN,
       llm \in LlmStates :
        /\ ret = Idle
        /\ ret' = [op |-> "get_personalized_recommendations",
                   user_profile |-> user_profile,
                   store_ok |-> store_ok,
                   found |-> get_policy_recommendations(collection, user_profile, sim,
                                                        store_ok).value,
                   outcome |-> get_personalized_recommendations(
                                   rag_engine, collection, user_profile, sim, store_ok,
                                   llm)]
        /\ UNCHANGED <<collection, metadata_collection, unique_index, clock, lastRun,
                       rag_engine, job, session, chat_collection>>

NextDash == GetPersonalizedRecommendations \/ Return

SpecDash == InitDash /\ [][NextDash]_vars

(***************************************************************************)
(* Properties of the query path.                                           *)
(***************************************************************************)
IsRecommendationCall == ret.op = "get_policy_recommendations"
IsSearchCall == ret.op = "semantic_search"

Oids(seq) == {seq[i].oid : i \in 1..Len(seq)}

\* position of the document with _id oid in a list that holds it
PosOf(seq, oid) == CHOOSE i \in 1..Len(seq) : seq[i].oid = oid

\* the claims' notion of a disqualified candidate: the profile has an age and it
\* lies outside the policy's eligibility range
AgeDisqualified(policy, user_profile) ==
    Has(user_profile, "age") /\ ~AgeInRange(policy, user_profile.age)

\* C1: for every profile whose age is known and every stored policy, an age outside
\* [eligibility_age_min, eligibility_age_max] gives recommendation score 0 and keeps
\* the policy out of the list get_policy_recommendations returns.
C1_AgeGateAbsolute ==
    IsRecommendationCall =>
        \A i \in 1..Len(collection) :
            AgeDisqualified(collection[i], ret.user_profile) =>
                /\ calculate_recommendation_score(collection[i], ret.user_profile) = 0
                /\ collection[i].oid \notin Oids(ret.outcome.value)

\* C2: the recommendation score of every candidate that is not age-disqualified lies
\* in [0, 100], both for every stored policy and for every entry actually returned.
C2_ScoreBounds ==
    IsRecommendationCall =>
        /\ \A i \in 1..Len(collection) :
              ~AgeDisqualified(collection[i], ret.user_profile) =>
                 /\ calculate_recommendation_score(collection[i], ret.user_profile) >= 0
                 /\ calculate_recommendation_score(collection[i], ret.user_profile)
                       <= 100 * ScoreScale
        /\ \A i \in 1..Len(ret.outcome.value) :
              ~AgeDisqualified(ret.outcome.value[i], ret.user_profile) =>
                 /\ ret.outcome.value[i].recommendation_score >= 0
                 /\ ret.outcome.value[i].recommendation_score <= 100 * ScoreScale

\* C2 witness: a returned candidate reached the maximum of 100 points
C2_Witness ==
    /\ IsRecommendationCall
    /\ \E i \in 1..Len(ret.outcome.value) :
          /\ ~AgeDisqualified(ret.outcome.value[i], ret.user_profile)
          /\ ret.outcome.value[i].recommendation_score = 100 * ScoreScale

\* C3: the returned list is in descending recommendation_score; equal scores are in
\* descending similarity_score; entries equal on both are in retrieval order.
C3_Ordering ==
    IsRecommendationCall =>
        LET v == ret.outcome.value IN
        \A i, j \in 1..Len(v) :
            i < j =>
               \/ v[i].recommendation_score > v[j].recommendation_score
               \/ /\ v[i].recommendation_score = v[j].recommendation_score
                  /\ v[i].similarity_score > v[j].similarity_score
               \/ /\ v[i].recommendation_score = v[j].recommendation_score
                  /\ v[i].similarity_score = v[j].similarity_score
                  /\ PosOf(ret.retrieved, v[i].oid) < PosOf(ret.retrieved, v[j].oid)

\* C3 witness: one returned list shows all three cases: a strictly better score first,
\* a score tie decided by similarity, and a tie on both kept in retrieval order
C3_Witness ==
    /\ IsRecommendationCall
    /\ LET v == ret.outcome.value IN
       /\ Len(v) = TopN
       /\ \E i, j \in 1..Len(v) :
             /\ i < j
             /\ v[i].recommendation_score = v[j].recommendation_score
             /\ v[i].similarity_score > v[j].similarity_score
       /\ \E i, j \in 1..Len(v) :
             /\ i < j
             /\ v[i].recommendation_score = v[j].recommendation_score
             /\ v[i].similarity_score = v[j].similarity_score

\* C4: the cut to the top 3 comes after scoring and sorting: every returned entry
\* carries the score of its policy, and an age-eligible candidate that the vector
\* search retrieved is left out only when 3 entries are returned and each of them
\* scores at least as much.
C4_CutAfterScoring ==
    (IsRecommendationCall /\ ret.store_ok) =>
        LET v == ret.outcome.value
            r == ret.retrieved
        IN  /\ Oids(v) \subseteq Oids(r)
            /\ \A i \in 1..Len(v) :
                  v[i].recommendation_score
                     = calculate_recommendation_score(v[i], ret.user_profile)
            /\ \A k \in 1..Len(r) :
                  (~AgeDisqualified(r[k], ret.user_profile) /\ r[k].oid \notin Oids(v)) =>
                     /\ Len(v) = TopN
                     /\ \A i \in 1..Len(v) :
                           v[i].recommendation_score
                              >= calculate_recommendation_score(r[k], ret.user_profile)

\* C4 witness: four or more candidates were retrieved, the one retrieved fourth (lower
\* similarity) is returned first, and an eligible candidate retrieved before it is cut
C4_Witness ==
    /\ IsRecommendationCall
    /\ ret.store_ok
    /\ Len(ret.retrieved) >= TopN + 1
    /\ Len(ret.outcome.value) = TopN
    /\ ret.outcome.value[1].oid = ret.retrieved[TopN + 1].oid
    /\ ret.outcome.value[1].similarity_score < ret.retrieved[1].similarity_score
    /\ \E k \in 1..TopN :
          /\ ~AgeDisqualified(ret.retrieved[k], ret.user_profile)
          /\ ret.retrieved[k].oid \notin Oids(ret.outcome.value)

\* C5: the age filter works on the over-fetched candidate set: when at least `limit`
\* of the numCandidates nearest policies are age-eligible, semantic_search returns
\* `limit` results.
C5_FilterOverCandidates ==
    (IsSearchCall /\ ret.store_ok /\ Has(ret.filters, "age")) =>
        LET eligible == {k \in 1..Len(ret.candidates) :
                            AgeInRange(ret.candidates[k], ret.filters.age)}
        IN  Cardinality(eligible) >= ret.limit => Len(ret.outcome.value) = ret.limit

\* C8: with an empty index (the vector store has no candidate to return)
\* semantic_search and get_policy_recommendations return an empty list and do not raise.
C8_EmptyIndex ==
    ((IsSearchCall \/ IsRecommendationCall) /\ collection = << >>) =>
        /\ ~ret.outcome.raised
        /\ ret.outcome.value = << >>

\* C8 witness: a recommendation request with an age and a goal, made on an empty index
\* with the store answering, returned the empty list
C8_Witness ==
    /\ IsRecommendationCall
    /\ ret.store_ok
    /\ collection = << >>
    /\ ret.outcome = Returns(<< >>)
    /\ Has(ret.user_profile, "age")
    /\ Has(ret.user_profile, "primary_goal")

(***************************************************************************)
(* Properties of the dashboard call.                                       *)
(***************************************************************************)
IsDashboardCall == ret.op = "get_personalized_recommendations"

\* what get_personalized_recommendations returns for the same profile when the search
\* works and no policy matches (the index holds nothing to match)
NoMatchResult ==
    get_personalized_recommendations(TRUE, << >>, ret.user_profile,
                                     << >>, TRUE, "ok")

\* C6: when the embedding model or the vector store fails during the query, the value
\* get_personalized_recommendations returns differs from the value it returns when the
\* search worked and found no matching policy.
C6_FailureDistinctFromNoMatch ==
    (IsDashboardCall /\ rag_engine /\ ~ret.store_ok) => ret.outcome # NoMatchResult

\* C7: every value get_personalized_recommendations returns is either a success with a
\* non-empty list whose entries all carry enhanced_data, or a failure with an error
\* message, an empty list and an empty sales pitch.
C7_SuccessOrCleanFailure ==
    IsDashboardCall =>
        LET o == ret.outcome IN
        \/ /\ o.success
           /\ ~Has(o, "error")
           /\ o.recommendations # << >>
           /\ \A i \in 1..Len(o.recommendations) :
                 Has(o.recommendations[i], "enhanced_data")
        \/ /\ ~o.success
           /\ Has(o, "error") /\ o.error # ""
           /\ o.recommendations = << >>
           /\ o.sales_pitch = ""

\* C7 witness: the search found policies, the enhancement raised on a zero income, and
\* the returned failure carries none of them
C7_Witness ==
    /\ IsDashboardCall
    /\ rag_engine
    /\ ret.found # << >>
    /\ Has(ret.user_profile, "monthly_income") /\ ret.user_profile.monthly_income = 0
    /\ ~ret.outcome.success
    /\ ret.outcome.recommendations = << >>

(***************************************************************************)
(* Properties of ingestion.                                                *)
(***************************************************************************)
IsIngestCall == ret.op = "process_and_insert_policies"

Without(d, keys) == [k \in DOMAIN d \ keys |-> d[k]]

\* a collection without what is new in every run: _id and created_at
Canonical(coll) == [i \in 1..Len(coll) |-> Without(coll[i], {"oid", "created_at"})]

\* a completed run of process_and_insert_policies on the data frame of the completed
\* run before it
IsRerun ==
    /\ ret = Idle
    /\ ret'.op = "process_and_insert_policies"
    /\ lastRun.done /\ lastRun'.done
    /\ lastRun'.df = lastRun.df

\* C9: a second completed run of process_and_insert_policies on the same batch leaves
\* both collections with the same policy ids, metadata fields, policy_text and
\* embeddings, document for document, as the first run did.
C9_ReingestIdempotent ==
    [][IsRerun => /\ Canonical(collection') = Canonical(collection)
                  /\ Canonical(metadata_collection') = Canonical(metadata_collection)]_vars

\* C9 witness: a batch of two policies was ingested twice, both runs completed, and the
\* documents in the index are those of the second run
C9_Witness ==
    /\ IsIngestCall
    /\ ret.previous.done /\ lastRun.done
    /\ ret.previous.df = lastRun.df
    /\ Len(lastRun.df) = 2
    /\ Len(collection) = 2
    /\ \A i \in 1..Len(collection) : collection[i].created_at = 2

\* C10: after a completed run of process_and_insert_policies the documents of the
\* batch have pairwise distinct policy_id values, for blank and for colliding plan
\* numbers alike.
C10_DistinctPolicyIds ==
    (IsIngestCall /\ lastRun.done) =>
        /\ Len(collection) = Len(lastRun.df)
        /\ ~HasDuplicateKey(collection)
        /\ ~HasDuplicateKey(metadata_collection)

\* the documents a completed run on df leaves in the vector and the metadata collection
BatchOf(df) == process_and_insert_policies(<< >>, << >>, df, FALSE, 0, 0)

HoldsBatch(df) ==
    /\ Canonical(collection) = Canonical(BatchOf(df).collection)
    /\ Canonical(metadata_collection) = Canonical(BatchOf(df).metadata_collection)

\* a run of process_and_insert_policies in which the embedding model raised at a record
IsInterruptedRun ==
    /\ IsIngestCall
    /\ lastRun.fail_at \in 1..Len(lastRun.df)

\* C12: when process_and_insert_policies fails at a record, on an index that held a
\* completed batch, both collections afterwards hold one complete batch, the previous
\* one or the new one, and are neither empty nor partly filled.
C12_FailureKeepsCompleteBatch ==
    (IsInterruptedRun /\ ret.previous.done) =>
        /\ collection # << >> /\ metadata_collection # << >>
        /\ HoldsBatch(ret.previous.df) \/ HoldsBatch(lastRun.df)

\* C13: when the embedding call fails for one record of a batch, only that record is
\* skipped: process_and_insert_policies does not abort, and every other record of the
\* batch is in both collections.
C13_FailedRecordSkipped ==
    IsInterruptedRun =>
        LET df == lastRun.df
            others == {i \in 1..Len(df) : i # lastRun.fail_at}
            expected == {PolicyIdOf(df[i], i - 1) : i \in others}
        IN  /\ ret.outcome.value = TRUE
            /\ Len(collection) = Cardinality(others)
            /\ Len(metadata_collection) = Cardinality(others)
            /\ {collection[i].policy_id : i \in 1..Len(collection)} = expected

(***************************************************************************)
(* Properties of searches that run during an ingestion.                    *)
(***************************************************************************)
PolicyIds(docs) == {docs[i].policy_id : i \in 1..Len(docs)}

ShowsBatch(result, df) ==
    /\ Len(result) = Len(BatchOf(df).collection)
    /\ PolicyIds(result) = PolicyIds(BatchOf(df).collection)

\* C11: a semantic_search (no filter, limit at least the batch sizes) made while
\* process_and_insert_policies is running returns the complete previous batch or the
\* complete new batch, never an empty or partly replaced index.
C11_SearchSeesCompleteBatch ==
    (/\ IsSearchCall /\ ret.store_ok /\ ret.filters = << >>
     /\ job.pc # "none"
     /\ lastRun.done
     /\ ret.limit >= Len(lastRun.df) /\ ret.limit >= Len(job.df)) =>
        \/ ShowsBatch(ret.outcome.value, lastRun.df)
        \/ ShowsBatch(ret.outcome.value, job.df)

(***************************************************************************)
(* Properties of the figures shown to the customer.                        *)
(***************************************************************************)
IsSalesContextCall == Has(ret, "op") /\ ret.op = "prepare_sales_context"

IsPremiumQuickAction ==
    /\ Has(ret, "op") /\ ret.op = "handle_quick_action"
    /\ ret.action = "premium_calculation"

Abs(x) == IF x >= 0 THEN x ELSE 0 - x

\* C14: the reported projections agree up to the rounding of each figure to a whole
\* rupee: twelve times the monthly premium is within 6.5 rupees of the annual premium
\* (half a rupee on the annual figure, twelve halves on the monthly one), and the
\* daily premium is within half a rupee of the annual premium over 365 (within 183 of
\* it after multiplying by 365).
C14_ProjectionsConsistent ==
    IsSalesContextCall =>
        LET fp == ret.context.financial_projections IN
        /\ 2 * Abs(fp.suggested_monthly_premium * MonthsPerYear
                     - fp.suggested_annual_premium) <= MonthsPerYear + 1
        /\ 2 * Abs(fp.suggested_annual_premium
                     - fp.suggested_daily_premium * DaysPerYear) <= DaysPerYear + 1

\* a sales context whose figures needed the tolerance: neither product is exact
C14_Witness ==
    /\ IsSalesContextCall
    /\ LET fp == ret.context.financial_projections IN
       /\ fp.suggested_monthly_premium * MonthsPerYear # fp.suggested_annual_premium
       /\ fp.suggested_daily_premium * DaysPerYear # fp.suggested_annual_premium

\* C15: the per-month and per-day figures of the "Calculate Premium" quick action
\* and the estimated_monthly_premium of every recommended policy are the figures of
\* the sales projections for the same profile (one annual base, over 12 and over 365).
C15_OneAnnualBase ==
    IsPremiumQuickAction =>
        LET fp == financial_projections(ret.user_profile)
            recs == ret.recommended_policies
        IN  /\ ret.response.per_month = fp.suggested_monthly_premium
            /\ ret.response.per_day = fp.suggested_daily_premium
            /\ \A i \in 1..Len(recs) :
                   RoundHalfEven(recs[i].enhanced_data.estimated_monthly_premium,
                                 PremiumDen)
                       = fp.suggested_monthly_premium

\* C16: the premium percentage of the sales context lies between 10% and 15%.
C16_PercentageClamped ==
    IsSalesContextCall =>
        /\ ret.context.financial_projections.premium_percentage >= BasePremiumPerMille
        /\ ret.context.financial_projections.premium_percentage <= CapPerMille

\* a profile whose dependents and age put the sum above 15%, reported as 15%
C16_Witness ==
    /\ IsSalesContextCall
    /\ premium_percentage_uncapped(
           Get(ret.user_profile, "dependents", DefaultDependents),
           Get(ret.user_profile, "age", DefaultAge)) > CapPerMille
    /\ ret.context.financial_projections.premium_percentage = CapPerMille

(***************************************************************************)
(* Properties of the eligibility ages stored by ingestion.                 *)
(***************************************************************************)
IsEligibilityCall == Has(ret, "op") /\ ret.op = "ingest_eligibility_texts"

IsDigits(cs) == cs # << >> /\ \A i \in 1..Len(cs) : cs[i] \in DOMAIN DigitValue

\* positions (i, j) that read cs as '<min>-<max> years': the separator at i, the last
\* digit of <max> at j
YearsForm(cs) ==
    {<<i, j>> \in (1..Len(cs)) \X (1..Len(cs)) :
        /\ i < j /\ j < Len(cs)
        /\ cs[i] = "-"
        /\ IsDigits(Strip(SubSeq(cs, 1, i - 1)))
        /\ IsDigits(Strip(SubSeq(cs, i + 1, j)))
        /\ IsSpace(cs[j + 1])
        /\ Strip(SubSeq(cs, j + 1, Len(cs))) = <<"y", "e", "a", "r", "s">>}

IsMinMaxYears(age_str) ==
    age_str # NaN /\ age_str # "" /\ YearsForm(Spell[age_str]) # {}

\* the two numbers of a text of the form '<min>-<max> years'
NumbersOf(age_str) ==
    LET cs == Spell[age_str]
        ij == CHOOSE p \in YearsForm(cs) : TRUE
    IN  <<DigitsValue(Strip(SubSeq(cs, 1, ij[1] - 1))),
          DigitsValue(Strip(SubSeq(cs, ij[1] + 1, ij[2])))>>

\* an integer, optionally signed with "+", stands before the first "-" and another,
\* ended by white space, by a further "-" or by the end of the text, after it
IsPlusDigits(cs) == IsDigits(cs) \/ (cs # << >> /\ cs[1] = "+" /\ IsDigits(Tail(cs)))

NumbersAroundDash(age_str) ==
    /\ age_str # NaN /\ age_str # ""
    /\ LET cs == Spell[age_str] IN
       \E i \in 1..Len(cs), a \in 1..Len(cs), b \in 1..Len(cs) :
           /\ cs[i] = "-" /\ \A k \in 1..(i - 1) : cs[k] # "-"
           /\ IsPlusDigits(Strip(SubSeq(cs, 1, i - 1)))
           /\ i < a /\ a <= b
           /\ \A k \in (i + 1)..(a - 1) : IsSpace(cs[k])
           /\ IsPlusDigits(SubSeq(cs, a, b))
           /\ b = Len(cs) \/ IsSpace(cs[b + 1]) \/ cs[b + 1] = "-"

StoredAgeRange(doc) ==
    <<doc.policy_metadata.eligibility_age_min, doc.policy_metadata.eligibility_age_max>>

RecordsKept ==
    /\ lastRun.df # << >> => ret.outcome.value = TRUE
    /\ Len(collection) = Len(lastRun.df)

C18_MinAtMostMax ==
    \A i \in 1..Len(collection) :
        collection[i].policy_metadata.eligibility_age_min
            <= collection[i].policy_metadata.eligibility_age_max

(***************************************************************************)
(* Properties of the dashboard for inconsistent profiles.                  *)
(***************************************************************************)
\* C19: a profile whose monthly_income is zero or negative still gets a successful
\* result with a ranked, non-empty list whenever the query engine found policies for
\* it.
C19_BadIncomeStillServed ==
    (/\ IsDashboardCall
     /\ rag_engine
     /\ Has(ret.user_profile, "monthly_income")
     /\ ret.user_profile.monthly_income <= 0
     /\ ret.found # << >>) =>
        /\ ret.outcome.success
        /\ Len(ret.outcome.recommendations) = Len(ret.found)

(***************************************************************************)
(* Properties of keyword matching in the recommendation score.             *)
(***************************************************************************)
IsScoreCall == ret.op = "calculate_recommendation_score"

\* the keywords of a list that the features text contains in any letter case
FoundInAnyCase(keywords, features_benefits) ==
    Cardinality({i \in 1..Len(keywords) :
        Contains(Lower(Spell[features_benefits]), Lower(Spell[keywords[i]]))})

\* weight x found / total, in units of 1/ScoreScale; 0 for an empty keyword list
Contribution(weight, keywords, features_benefits) ==
    IF keywords = << >> THEN 0
    ELSE (FoundInAnyCase(keywords, features_benefits) * weight * ScoreScale)
             \div Len(keywords)

AgeOnly(user_profile) ==
    [k \in DOMAIN user_profile \ {"primary_goal", "risk_comfort"} |-> user_profile[k]]

\* C20: for a policy the age gate lets through, what the goal and the risk value add to
\* the score is 30 x found/total plus 20 x found/total, a keyword counting as found
\* when the features text contains it in any letter case, and 0 for a goal or risk
\* value without a keyword list.
C20_CaseInsensitiveKeywords ==
    (/\ IsScoreCall
     /\ ~(TruthyInt(ret.user_profile, "age")
            /\ ~AgeInRange(ret.policy, ret.user_profile.age))) =>
        ret.score - calculate_recommendation_score(ret.policy, AgeOnly(ret.user_profile))
            = Contribution(GoalWeight,
                           MapGet(goal_keywords,
                                  Get(ret.user_profile, "primary_goal", ""), << >>),
                           ret.policy.features_benefits)
              + Contribution(RiskWeight,
                             MapGet(risk_indicators,
                                    Get(ret.user_profile, "risk_comfort", ""), << >>),
                             ret.policy.features_benefits)

(***************************************************************************)
(* Properties of the translation of a profile into a query.                *)
(***************************************************************************)
\* C21: for every profile that carries an age (any integer), get_policy_recommendations
\* searches with the filter {age: profile.age}, so that no returned policy has the age
\* outside its eligibility range; without an age it searches with no filter.
C21_AgeFilterWhenPresent ==
    IsRecommendationCall =>
        IF Has(ret.user_profile, "age")
        THEN /\ BuildFilters(ret.user_profile) = [age |-> ret.user_profile.age]
             /\ \A i \in 1..Len(ret.outcome.value) :
                    AgeInRange(ret.outcome.value[i], ret.user_profile.age)
        ELSE BuildFilters(ret.user_profile) = << >>

\* C22: for every profile the profile form can complete, the query has a non-empty
\* phrase for the goal, for the risk comfort and for the life stage, and the scorer has
\* a non-empty keyword list for the goal and for the risk comfort.
C22_EveryCollectedValueMapped ==
    ret.op = "recommend_for_collected_profile" =>
        /\ Len(ret.query_parts) = 3
        /\ \A i \in 1..Len(ret.query_parts) : ret.query_parts[i] # ""
        /\ MapGet(goal_keywords, ret.user_profile.primary_goal, << >>) # << >>
        /\ MapGet(risk_indicators, ret.user_profile.risk_comfort, << >>) # << >>

(***************************************************************************)
(* Properties of the completeness score of the flattened record.           *)
(***************************************************************************)
AllFilled == [f \in DOMAIN required_fields |->
                 IF f \in {"age_range", "age_limit"} THEN "18-50 years"
                 ELSE "Guaranteed Endowment protection"]

\* C23: a flattened record with every other field filled and exactly one of age_range
\* and age_limit filled (the other empty) has the score of the record with both
\* filled, and no record scores higher.
C23_EitherAgeFieldSuffices ==
    ret.op = "flatten_policy_data_for_vector_db" =>
        /\ ret.data_completeness_score <= flattened_completeness_score(AllFilled)
        /\ (\E one \in {"age_range", "age_limit"} :
                ret.flattened = [AllFilled EXCEPT ![one] = ""]) =>
               ret.data_completeness_score = flattened_completeness_score(AllFilled)

(***************************************************************************)
(* Properties of the text built for embedding.                             *)
(***************************************************************************)
SegmentOrder ==
    <<<<"Policy: ", "policy_name">>, <<"Category: ", "category">>,
      <<"Features: ", "features_benefits">>, <<"Age eligibility: ", "eligibility_age">>,
      <<"Maturity benefits: ", "maturity_benefits">>, <<"Tax benefits: ", "tax_benefits">>,
      <<"Premium options: ", "premium_options">>, <<"Surrender: ", "surrender_clause">>>>

RECURSIVE FilledSegments(_, _)
FilledSegments(row, k) ==
    IF k > Len(SegmentOrder) THEN << >>
    ELSE (IF row[SegmentOrder[k][2]] \in {NaN, ""} THEN << >>
          ELSE <<SegmentOrder[k][1] \o row[SegmentOrder[k][2]]>>)
         \o FilledSegments(row, k + 1)

\* C24: the text is the labelled segments of the non-empty fields, in the order Policy,
\* Category, Features, Age eligibility, Maturity benefits, Tax benefits, Premium
\* options, Surrender, joined by " | "; a segment whose field is empty is left out.
C24_SegmentsOfFilledFields ==
    ret.op = "create_policy_text_for_embedding" =>
        ret.policy_text = Join(FilledSegments(ret.row, 1), " | ")

(***************************************************************************)
(* Properties of the premium estimate and its affordability bucket.        *)
(***************************************************************************)
IsAffordabilityCall == ret.op = "calculate_affordability_score"

\* C25: for a positive income the bucket is Excellent when premium / income <= 10%,
\* Good when 10% < ratio <= 15%, Moderate when 15% < ratio <= 20%, High above 20%.
C25_AffordabilitySteps ==
    (IsAffordabilityCall /\ ret.monthly_income > 0) =>
        LET ratio_times_income == ret.premium * 100
            m == ret.monthly_income
        IN  /\ ~ret.outcome.raised
            /\ ret.outcome.value =
                   (IF ratio_times_income <= ExcellentRatioPct * m THEN "Excellent"
                    ELSE IF ratio_times_income <= GoodRatioPct * m THEN "Good"
                    ELSE IF ratio_times_income <= ModerateRatioPct * m THEN "Moderate"
                    ELSE "High")

\* a premium of exactly 10% of the income, put into the best bucket
C25_Witness ==
    /\ IsAffordabilityCall
    /\ ret.premium > 0
    /\ ret.premium * 100 = ExcellentRatioPct * ret.monthly_income
    /\ ret.outcome.value = "Excellent"

CategoryOf(recommendation) ==
    Lower(Spell[Get(Get(recommendation, "policy_metadata", << >>), "category", "")])

\* the category factor, in tenths, by the kind of plan the category names
FactorByPlanKind(recommendation) ==
    LET c == CategoryOf(recommendation) IN
    IF Contains(c, Spell["term"]) THEN TermFactorTenths
    ELSE IF \/ Contains(c, Spell["ulip"])
            \/ Contains(c, Spell["investment"])
            \/ Contains(c, Spell["unit"]) /\ Contains(c, Spell["linked"])
         THEN InvestmentFactorTenths
         ELSE StandardFactorTenths

\* C26: the premium estimate uses the cheaper factor for a category naming a term plan,
\* the costlier factor for a category naming a unit-linked or investment plan in any
\* letter case, and the factor 1.0 for every other category and for a missing one.
C26_FactorByCategory ==
    ret.op = "estimate_premium" =>
        ret.premium = ret.monthly_income * BasePremiumPct
                          * (100 + (ret.age - AgeFactorPivot))
                          * FactorByPlanKind(ret.recommendation)

(***************************************************************************)
(* Properties of the dashboard session.                                    *)
(***************************************************************************)
\* C27: whenever the recommendations page displays recommendation_data, the data was
\* computed from the profile that st.session_state.user_profile holds now.
C27_ShownDataMatchesProfile ==
    (/\ session.current_page = "recommendations"
     /\ session.user_profile_complete
     /\ session.recommendation_data # None) =>
        session.recommendation_data.computed_from = session.user_profile

\* C28: recommendations_generated implies that recommendation_data is not None, and
\* the chat interface is initialised only when recommendations_generated holds, so
\* that reading the recommendations of recommendation_data does not fail.
C28_GeneratedImpliesData ==
    /\ session.recommendations_generated => session.recommendation_data # None
    /\ ret.op = "initialize_chat_interface" =>
           session.recommendations_generated /\ ~ret.raised

\* the chat was opened after a failed recommendation run and a later profile edit
C28_Witness ==
    /\ ret.op = "initialize_chat_interface"
    /\ ~session.recommendation_data.success
    /\ session.recommendation_data.computed_from # session.user_profile

\* C29: an exchange that save_chat_message saved is in the conversation history of a
\* session document that exists for its session id.
C29_SavedIntoCreatedSession ==
    ret.op = "save_chat_message" =>
        \E i \in 1..Len(chat_collection) :
            /\ chat_collection[i].session_id = ret.session_id
            /\ \E k \in 1..Len(chat_collection[i].conversation_history) :
                   chat_collection[i].conversation_history[k].user_message
                       = ret.user_message

\* ---------------------------------------------------------------------------
\* safe_request (scraper/utils.py): one call, held in job.  job.log is the
\* sequence of sleeps and HTTP attempts the call has made so far.
\* ---------------------------------------------------------------------------

\* the except branch of an attempt that also sleeps after the last attempt
always_back_off(j) ==
    [j EXCEPT !.pc = "backoff"]

\* except requests.RequestException: the last attempt logs and returns None,
\* an earlier one goes on to the backoff sleep
after_request_error(j) ==
    IF j.attempt = j.retries - 1
    THEN [j EXCEPT !.pc = "done", !.result = None]
    ELSE [j EXCEPT !.pc = "backoff"]

\* the call has been made with some retries; nothing has happened yet
InitRequest ==
    /\ collection = << >>
    /\ metadata_collection = << >>
    /\ unique_index = FALSE
    /\ clock = 0
    /\ lastRun = NoRun
    /\ rag_engine = TRUE
    /\ ret = Idle
    /\ session = NoSession
    /\ chat_collection = << >>
    /\ \E retries \in 0..MaxRetries :
           job = [pc |-> "for", retries |-> retries, attempt |-> 0,
                  log |-> << >>, result |-> None]

\* the for header and the try block: an exhausted range falls through to the
\* final return None; otherwise the random delay, then the GET, which either
\* gives a response with a good status (returned at once) or raises a
\* RequestException (requests.get or raise_for_status)
ForAttempt ==
    /\ job.pc = "for"
    /\ IF job.attempt >= job.retries
       THEN job' = [job EXCEPT !.pc = "done", !.result = None]
       ELSE \E delay \in 1..3, ok \in BOOLEAN :
                LET slept == Append(job.log, [event |-> "delay",
                                              attempt |-> job.attempt,
                                              seconds |-> delay])
                    got   == Append(slept, [event |-> IF ok THEN "response"
                                                      ELSE "RequestException",
                                            attempt |-> job.attempt,
                                            seconds |-> 0])
                IN  job' = IF ok
                           THEN [job EXCEPT !.log = got, !.pc = "done",
                                            !.result = [status |-> "ok",
                                                        attempt |-> job.attempt]]
                           ELSE after_request_error([job EXCEPT !.log = got])
    /\ UNCHANGED <<collection, metadata_collection, unique_index, clock, lastRun,
                   rag_engine, ret, session, chat_collection>>

\* time.sleep(2 ** attempt), then the next turn of the loop
Backoff ==
    /\ job.pc = "backoff"
    /\ job' = [job EXCEPT !.pc = "for",
                          !.attempt = job.attempt + 1,
                          !.log = Append(job.log, [event |-> "backoff",
                                                   attempt |-> job.attempt,
                                                   seconds |-> 2 ^ job.attempt])]
    /\ UNCHANGED <<collection, metadata_collection, unique_index, clock, lastRun,
                   rag_engine, ret, session, chat_collection>>

\* the call runs in one thread and each sleep and each GET (which has a
\* timeout) comes back, so an enabled step is eventually taken
SpecRequest ==
    /\ InitRequest
    /\ [][ForAttempt \/ Backoff]_vars
    /\ WF_vars(ForAttempt)
    /\ WF_vars(Backoff)

\* positions of job.log that hold an event of the given kind
EventsOf(kind) ==
    {i \in 1..Len(job.log) : job.log[i].event = kind}

\* what holds of a call of safe_request at every moment
RequestSafe ==
    /\ Cardinality(EventsOf("response") \cup EventsOf("RequestException"))
           <= job.retries
    /\ \A i \in EventsOf("response") :
           /\ i = Len(job.log)
           /\ job.pc = "done"
           /\ job.result = [status |-> "ok", attempt |-> job.log[i].attempt]
    /\ job.pc = "done" =>
           /\ (job.result = None) <=>
                  Cardinality(EventsOf("RequestException")) = job.retries
           /\ job.result # None => EventsOf("response") # {}
    /\ \A i \in EventsOf("backoff") :
           /\ job.log[i].seconds = 2 ^ job.log[i].attempt
           /\ job.log[i - 1].event = "RequestException"
           /\ job.log[i - 1].attempt = job.log[i].attempt
           /\ job.log[i].attempt < job.retries - 1
           /\ job.pc = "done" =>
                  /\ i < Len(job.log)
                  /\ job.log[i + 1].event = "delay"
                  /\ job.log[i + 1].attempt = job.log[i].attempt + 1

\* C30: safe_request makes at most retries attempts and always terminates; the
\* response of the first successful attempt is returned and ends the call;
\* None is returned exactly when retries attempts raised a request error
\* (none at all when retries = 0); the backoff of 2^attempt seconds is slept
\* only between a failed attempt and the next one, never after the last
C30_BoundedRetries ==
    /\ [] RequestSafe
    /\ <> (job.pc = "done")

\* every one of at least two attempts failed, and None was returned
C30_Witness ==
    /\ job.pc = "done"
    /\ job.result = None
    /\ job.retries >= 2
    /\ Cardinality(EventsOf("RequestException")) = job.retries
    /\ Cardinality(EventsOf("backoff")) = job.retries - 1

====
